---- MODULE Spec2Model ----
(***************************************************************************)
(* A model of the browser session core of EternalWeb's archivebox engine:  *)
(* the Zombie Reaper (killZombieChrome), the Tab Allocator                 *)
(* (on_Snapshot__10_chrome_tab) and the capture hooks that attach to a     *)
(* Snapshot's tab (dns, ssl, consolelog, responses, redirects, staticfile, *)
(* screenshot, chrome_wait).  Processes share no memory: they meet only in *)
(* marker files and in the shared browser, which are the model's state.    *)
(***************************************************************************)
EXTENDS Integers, Sequences, FiniteSets, TLC

(***************************************************************************)
(* Bounds of the model.                                                    *)
(***************************************************************************)
NumPidFiles == 2
NumPids == 2
MaxOverMs == 1
MaxInvocations == 2
MaxSignals == 2
MaxLaunches == 2
MaxLayerArgs == 1
MaxNameLen == 2
MaxDnsEvents == 3
MaxPolls == 1
MaxResponses == 2
MaxRedirectEvents == 2
MaxInstallCalls == 2

(***************************************************************************)
(* Program constants.                                                      *)
(***************************************************************************)
\* chrome_utils.ts:214  const fiveMinutesAgo = now - 300000;
StaleThresholdMs == 300000
\* chrome_utils.ts:814  crypto.createHash('sha256'): 64 hex digits
DigestHexLen == 64
\* chrome_utils.ts:819  .slice(0, 32)
ExtensionIdLen == 32
\* on_Snapshot__26_staticfile.bg.js:136  sanitizeFilename(str, maxLen = 200)
SanitizeMaxLen == 200

\* The crawl directories of the data tree: pid file f lies in the chrome/
\* of CrawlDirOf(f).
CrawlDirs == <<"crawlA", "crawlB">>
Dirs == {CrawlDirs[i] : i \in 1..Len(CrawlDirs)}
CrawlDirOf(f) == CrawlDirs[((f - 1) % Len(CrawlDirs)) + 1]
PidFiles == 1..NumPidFiles
Pids == 1..NumPids
Personas == {"Default"}
\* What a pid file may hold: a process id, or text that parseInt turns into
\* NaN or a number <= 0 (written 0 here).
PidContents == 0..NumPids
\* The clock runs from 0 to MaxOverMs past the threshold: first to one
\* millisecond short of it, then millisecond by millisecond, so that ages
\* below, at and above the threshold all occur.
ClockEnd == StaleThresholdMs + MaxOverMs
Snapshots == {"snapA", "snapB"}
KillOutcomes == {"group", "single", "fail"}
NoPass == [ran |-> FALSE]

VARIABLES
    \* ---- Zombie Reaper: the data tree and the process table ----
    now,            \* Date.now() in ms
    dirMtime,       \* crawl directory -> mtimeMs
    pidFilePid,     \* pid file -> its content
    pidFileExists,  \* pid file -> whether the marker is on disk
    procAlive,      \* pid -> whether kill(pid, 0) succeeds
    singletonLock,  \* persona -> pid of the browser whose
                    \* chrome_user_data/SingletonLock is on disk, 0 if none
    crawlRunning,   \* crawl directory -> whether the Crawl's Launcher and
                    \* Snapshot hooks are still running
    reaperLog       \* what the pass just taken did (NoPass after any other step)

VARIABLES
    \* ---- the Crawl's shared browser and the Snapshots' chrome/ directories ----
    browser,        \* [alive, created, pages]: created[t] is the Snapshot whose
                    \* Tab Allocator opened target t; pages lists the open targets
    crawl,          \* [envSet, cdpFile, pidFile]: CRAWL_OUTPUT_DIR and the
                    \* Session Launcher's artifacts under <crawl>/chrome
    files,          \* Snapshot -> its chrome/ files: cdp_url.txt, chrome.pid,
                    \* target_id.txt (tidFile; tid is its content, 0 while
                    \* empty), url.txt, page_loaded.txt
    tab,            \* Snapshot -> the state of its Tab Allocator process
    executor,       \* [launches, signals]: how many more Tab Allocator launches
                    \* and SIGTERM/SIGINT deliveries the hook executor will make
    closeLog,       \* the page.close() calls made so far (for the claims)
    \* ---- one capture hook of Snapshot HookSnap ----
    hook            \* the state of the hook process
VARIABLES
    \* ---- the Crawl's Session Launcher and the browsers it spawned ----
    session,        \* the launcher process (pc: main, cpc: cleanup()) and the
                    \* Crawl's chrome.pid / port.txt (0 = absent, else the pid)
    chrome,         \* [alive, spawned, related, sent, unkillable]: the browser
                    \* processes, whether other process groups hold a
                    \* browser's debug port, the signals killChrome delivered
    \* ---- the dns hook's recorder ----
    dns,            \* [seen, file, observed, repeated, events]:
                    \* seenResolutions, the lines of dns.jsonl, the (hostname,
                    \* address) pairs of the responses so far, whether one
                    \* came twice, the number of CDP events so far
    \* ---- the pure functions under study ----
    calc,
    \* ---- the Crawl-level setup hooks ----
    captcha,        \* the 2captcha configuration hook: its position, the
                    \* API key of its environment, the .twocaptcha_configured
                    \* marker, the configuration read back, status and exit
    cache           \* one extension install through the descriptor cache:
                    \* <name>.extension.json, the manifests on disk, the
                    \* installs run and the value returned

reaperVars == <<now, dirMtime, pidFilePid, pidFileExists,
                procAlive, singletonLock, crawlRunning, reaperLog>>
tabVars == <<browser, crawl, files, tab, executor, closeLog>>
restVars == <<session, chrome, dns, calc, captcha, cache>>
vars == <<reaperVars, tabVars, hook, restVars>>

(***************************************************************************)
(* Zombie Reaper                                                           *)
(***************************************************************************)

\* Faulty variant: the comparison made non-strict: a directory modified exactly at
\* the threshold instant counts as active.
CrawlIsActive_AtOrAfter(mtimeMs, nowMs) == mtimeMs >= nowMs - StaleThresholdMs

\* crawlStats.mtimeMs > fiveMinutesAgo: "Crawl is active, skip".
CrawlIsActive(mtimeMs, nowMs) == mtimeMs > nowMs - StaleThresholdMs

\* The two kill attempts of one zombie: process group first, then the pid.
\* oc is what the kernel answers: "group" (kill(-pid) succeeded), "single"
\* (kill(-pid) threw, kill(pid) succeeded), "fail" (both threw).
KillSignals(f, pid, oc) ==
    IF oc = "group" THEN {<<f, 0 - pid>>} ELSE {<<f, 0 - pid>>, <<f, pid>>}

\* Whether the marker is unlinked after the kill attempts of a zombie:
\* fs.unlinkSync sits after killed++ inside the try that the failing
\* kill(pid, 'SIGKILL') leaves.
UnlinkAfterKill(oc) == oc # "fail"

\* Faulty variant: the dead process's marker is left behind.
OnDeadPid_KeepMarker(st, f) == [st EXCEPT !.foundDead = @ \cup {f}]

\* "Process dead, remove stale PID file": the probe kill(pid, 0) threw.
OnDeadPid(st, f) ==
    [st EXCEPT !.exists[f] = FALSE, !.foundDead = @ \cup {f}]

\* "Process alive and crawl is stale - zombie!": the kill attempts, killed++
\* and the unlink that follows them.
OnZombie(st, f, pid, oc) ==
    [st EXCEPT
        !.probedAlive = @ \cup {f},
        !.sent = @ \cup KillSignals(f, pid, oc),
        !.alive[pid] = (oc = "fail"),
        !.killed = IF oc = "fail" THEN @ ELSE @ + 1,
        !.exists[f] = IF UnlinkAfterKill(oc) THEN FALSE ELSE @]

\* One iteration of `for (const {pidFile, crawlDir} of chromePids)`.
\* aliveAt notes, for the claims, the pid files whose recorded process was
\* alive when the loop came to them.
ReapOne(st0, f, oc) ==
    LET pid == pidFilePid[f]
        st  == IF st0.exists[f] /\ pid > 0 /\ st0.alive[pid]
               THEN [st0 EXCEPT !.aliveAt = @ \cup {f}] ELSE st0
    IN
    IF ~st.exists[f] THEN st
    ELSE IF CrawlIsActive(dirMtime[CrawlDirOf(f)], now) THEN st
    ELSE IF pid <= 0 THEN st
    ELSE IF ~st.alive[pid] THEN OnDeadPid(st, f)
    ELSE OnZombie(st, f, pid, oc)

RECURSIVE ReapFrom(_, _, _)
ReapFrom(st, f, ocs) ==
    IF f > NumPidFiles THEN st
    ELSE ReapFrom(ReapOne(st, f, ocs[f]), f + 1, ocs)

\* The pid files whose iteration can get as far as the kill attempts.
MayReachKill(f) ==
    /\ pidFileExists[f]
    /\ ~CrawlIsActive(dirMtime[CrawlDirOf(f)], now)
    /\ pidFilePid[f] > 0
    /\ procAlive[pidFilePid[f]]

\* The scan of killZombieChrome over the pid files found, in readdir order.
ReapAll(ocs) ==
    ReapFrom([exists |-> pidFileExists, alive |-> procAlive, killed |-> 0,
              sent |-> {}, probedAlive |-> {}, foundDead |-> {}, aliveAt |-> {}],
             1, ocs)

\* `if (fs.existsSync(singletonLock)) fs.unlinkSync(singletonLock)`: what is
\* left of a persona's lock, given the process that made it and the process
\* table after the scan.  The unlink asks nothing about the holder.
RemoveSingletonLock(holder, alive) == 0

\* killZombieChrome(dataDir): the scan of the pid files, then the removal of
\* every persona's SingletonLock.
killZombieChrome ==
    \E ocs \in [PidFiles -> KillOutcomes] :
        \* the kernel is asked only about the pid files that reach the kill
        /\ \A f \in PidFiles : ~MayReachKill(f) => ocs[f] = "group"
        /\ pidFileExists' = ReapAll(ocs).exists
        /\ procAlive' = ReapAll(ocs).alive
        /\ singletonLock' = [p \in Personas |-> RemoveSingletonLock(singletonLock[p], ReapAll(ocs).alive)]
        /\ reaperLog' = [ran |-> TRUE,
                         locksBefore |-> singletonLock,
                         before |-> pidFileExists,
                         sent |-> ReapAll(ocs).sent,
                         probedAlive |-> ReapAll(ocs).probedAlive,
                         foundDead |-> ReapAll(ocs).foundDead,
                         aliveAt |-> ReapAll(ocs).aliveAt,
                         outcome |-> [f \in ReapAll(ocs).probedAlive |-> ocs[f]],
                         killed |-> ReapAll(ocs).killed]
        /\ UNCHANGED <<now, dirMtime, pidFilePid, crawlRunning,
                       tabVars, hook, restVars>>

\* ---- the Reaper's environment ----
Tick ==
    /\ now < ClockEnd
    /\ now' = IF now < StaleThresholdMs - 1 THEN StaleThresholdMs - 1 ELSE now + 1
    /\ reaperLog' = NoPass
    /\ UNCHANGED <<tabVars, hook, restVars>>
    /\ UNCHANGED <<dirMtime, pidFilePid, pidFileExists, procAlive,
                   singletonLock, crawlRunning>>

\* An entry is added to or removed from a crawl directory.
TouchDir(d) ==
    /\ dirMtime[d] # now
    /\ dirMtime' = [dirMtime EXCEPT ![d] = now]
    /\ reaperLog' = NoPass
    /\ UNCHANGED <<tabVars, hook, restVars>>
    /\ UNCHANGED <<now, pidFilePid, pidFileExists, procAlive,
                   singletonLock, crawlRunning>>

\* A recorded process ends by itself.
ProcessExits(p) ==
    /\ procAlive[p]
    /\ procAlive' = [procAlive EXCEPT ![p] = FALSE]
    /\ reaperLog' = NoPass
    /\ UNCHANGED <<tabVars, hook, restVars>>
    /\ UNCHANGED <<now, dirMtime, pidFilePid, pidFileExists,
                   singletonLock, crawlRunning>>

\* The Launcher and the hooks of a Crawl end (the Crawl is over, or they
\* crashed and left the browser behind).  Nothing in the data tree records it.
CrawlEnds(d) ==
    /\ crawlRunning[d]
    /\ crawlRunning' = [crawlRunning EXCEPT ![d] = FALSE]
    /\ reaperLog' = NoPass
    /\ UNCHANGED <<tabVars, hook, restVars>>
    /\ UNCHANGED <<now, dirMtime, pidFilePid, pidFileExists,
                   procAlive, singletonLock>>

\* A browser starts on a persona's profile and takes its SingletonLock.
TakeSingletonLock(p) ==
    /\ \E pid \in Pids :
        /\ procAlive[pid]
        /\ \A q \in Personas : singletonLock[q] # pid
        /\ IF singletonLock[p] = 0 THEN TRUE ELSE ~procAlive[singletonLock[p]]
        /\ singletonLock' = [singletonLock EXCEPT ![p] = pid]
    /\ reaperLog' = NoPass
    /\ UNCHANGED <<tabVars, hook, restVars>>
    /\ UNCHANGED <<now, dirMtime, pidFilePid, pidFileExists,
                   procAlive, crawlRunning>>

(***************************************************************************)
(* Tab Allocator: on_Snapshot__10_chrome_tab                               *)
(***************************************************************************)
Range(q) == {q[i] : i \in DOMAIN q}
Without(q, x) == SelectSeq(q, LAMBDA y : y # x)

\* A process that has not been started.  `handled` counts the cleanup()
\* calls of the invocation; `found` is whether findCrawlChromeSession()
\* returned a session, `spawned` whether the invocation started a browser
\* of its own.
IdleTab ==
    [pc |-> "idle", pending |-> 0, handled |-> 0, target |-> 0,
     finalStatus |-> "failed", finalized |-> FALSE, out |-> <<>>,
     exit |-> "running", cleanups |-> <<>>, found |-> FALSE, spawned |-> FALSE]

\* Node runs a signal handler, or resumes a coroutine, only between tasks:
\* when main() is suspended in an await.
TabAtAwait(s) == tab[s].pc \in {"connect", "newPage", "viewport", "resident"}

\* findCrawlChromeSession(): CRAWL_OUTPUT_DIR set, cdp_url.txt and chrome.pid
\* present, and process.kill(pid, 0) not throwing.
findCrawlChromeSession ==
    crawl.envSet /\ crawl.cdpFile /\ crawl.pidFile /\ browser.alive

\* emitResult(statusOverride): one ArchiveResult line, guarded by `finalized`.
TabEmitResult(t, statusOverride) ==
    IF t.finalized THEN t
    ELSE [t EXCEPT !.finalized = TRUE,
                   !.out = Append(@, IF statusOverride # "" THEN statusOverride
                                     ELSE t.finalStatus)]

\* process.exit(code): the process and its coroutines are gone.
TabExit(t, code) ==
    [t EXCEPT !.pc = "exited", !.exit = code, !.cleanups = <<>>, !.pending = 0]

\* main()'s tail for a failure: finalStatus = 'failed'; emitResult(status);
\* process.exit(1).
TabFail(t) ==
    TabExit(TabEmitResult([t EXCEPT !.finalStatus = "failed"], "failed"), "nonzero")

\* cleanup()'s tail: emitResult(); process.exit(finalStatus === 'succeeded' ? 0 : 1).
TabCleanupExit(t) ==
    TabExit(TabEmitResult(t, ""),
            IF t.finalStatus = "succeeded" THEN "zero" ELSE "nonzero")

\* Faulty variant: without a Crawl session the allocator starts a browser of
\* its own (launchNewChrome) and goes on to open its tab there.
NoCrawlSession_LaunchesOwn(t) ==
    [t EXCEPT !.pc = "connect", !.spawned = TRUE]

\* main() when findCrawlChromeSession() returned null: result is
\* {success: false, error: 'No crawl Chrome session found ...'};
\* launchNewChrome is never called.
NoCrawlSession(t) ==
    TabFail(t)

\* The external executor starts the hook: main() up to its first await.
TabStart(s) ==
    /\ tab[s].pc \in {"idle", "exited"}
    /\ executor.launches > 0
    /\ executor' = [executor EXCEPT !.launches = @ - 1]
    /\ tab' = [tab EXCEPT ![s] =
                 IF findCrawlChromeSession
                 THEN [IdleTab EXCEPT !.pc = "connect", !.found = TRUE]
                 ELSE NoCrawlSession(IdleTab)]
    /\ UNCHANGED <<browser, crawl, files, closeLog, reaperVars, hook, restVars>>

\* createTabInExistingChrome: await puppeteer.connect(...)
TabConnected(s) ==
    /\ tab[s].pc = "connect"
    /\ tab' = [tab EXCEPT ![s] =
                 IF browser.alive THEN [@ EXCEPT !.pc = "newPage"] ELSE TabFail(@)]
    /\ UNCHANGED <<browser, crawl, files, closeLog, executor, reaperVars, hook, restVars>>

\* await browser.newPage(): the one tab this invocation opens.
TabNewPage(s) ==
    /\ tab[s].pc = "newPage"
    /\ LET t == Len(browser.created) + 1 IN
       /\ browser' = [browser EXCEPT !.created = Append(@, s),
                                     !.pages = Append(@, t)]
       /\ tab' = [tab EXCEPT ![s].pc = "viewport", ![s].target = t]
    /\ UNCHANGED <<crawl, files, closeLog, executor, reaperVars, hook, restVars>>

\* await page.setViewport / setUserAgent resolve; the writes follow in one
\* synchronous run, which other processes see file by file.
TabViewportSet(s) ==
    /\ tab[s].pc = "viewport"
    /\ tab' = [tab EXCEPT ![s].pc = "w_cdp"]
    /\ UNCHANGED <<browser, crawl, files, closeLog, executor, reaperVars, hook, restVars>>

TabWriteCdpUrl(s) ==
    /\ tab[s].pc = "w_cdp"
    /\ files' = [files EXCEPT ![s].cdp = TRUE]
    /\ tab' = [tab EXCEPT ![s].pc = "w_pid"]
    /\ UNCHANGED <<browser, crawl, closeLog, executor, reaperVars, hook, restVars>>

TabWritePid(s) ==
    /\ tab[s].pc = "w_pid"
    /\ files' = [files EXCEPT ![s].pid = TRUE]
    /\ tab' = [tab EXCEPT ![s].pc = "w_tid_open"]
    /\ UNCHANGED <<browser, crawl, closeLog, executor, reaperVars, hook, restVars>>

\* fs.writeFileSync(target_id.txt): open(O_CREAT|O_TRUNC) ...
TabOpenTargetId(s) ==
    /\ tab[s].pc = "w_tid_open"
    /\ files' = [files EXCEPT ![s].tidFile = TRUE, ![s].tid = 0]
    /\ tab' = [tab EXCEPT ![s].pc = "w_tid"]
    /\ UNCHANGED <<browser, crawl, closeLog, executor, reaperVars, hook, restVars>>

\* ... then write(targetId)
TabWriteTargetId(s) ==
    /\ tab[s].pc = "w_tid"
    /\ files' = [files EXCEPT ![s].tid = tab[s].target]
    /\ tab' = [tab EXCEPT ![s].pc = "w_url"]
    /\ UNCHANGED <<browser, crawl, closeLog, executor, reaperVars, hook, restVars>>

\* url.txt, browser.disconnect(), and main()'s finalStatus = 'succeeded';
\* then the indefinite wait.
TabWriteUrl(s) ==
    /\ tab[s].pc = "w_url"
    /\ files' = [files EXCEPT ![s].url = TRUE]
    /\ tab' = [tab EXCEPT ![s].pc = "resident", ![s].finalStatus = "succeeded"]
    /\ UNCHANGED <<browser, crawl, closeLog, executor, reaperVars, hook, restVars>>

\* SIGTERM or SIGINT is delivered to the running process.
TabSignal(s) ==
    /\ tab[s].pc \notin {"idle", "exited"}
    /\ executor.signals > 0
    /\ executor' = [executor EXCEPT !.signals = @ - 1]
    /\ tab' = [tab EXCEPT ![s].pending = @ + 1]
    /\ UNCHANGED <<browser, crawl, files, closeLog, reaperVars, hook, restVars>>

\* cleanup(signal) up to its first await: with both files present it reads
\* them and connects; without, it goes straight to its tail.
TabCleanupStart(s) ==
    /\ tab[s].pending > 0
    /\ TabAtAwait(s)
    /\ LET t == [tab[s] EXCEPT !.pending = @ - 1, !.handled = @ + 1] IN
       tab' = [tab EXCEPT ![s] =
                 IF files[s].cdp /\ files[s].tidFile
                 THEN [t EXCEPT !.cleanups =
                         Append(@, [pc |-> "connect", targetId |-> files[s].tid])]
                 ELSE TabCleanupExit(t)]
    /\ UNCHANGED <<browser, crawl, files, closeLog, executor, reaperVars, hook, restVars>>

\* Faulty variant: the most recent tab of the browser is taken instead.
CleanupPage_Last(targetId, pages) ==
    IF pages = <<>> THEN 0 ELSE pages[Len(pages)]

\* pages.find(p => p.target()._targetId === targetId)
CleanupPage(targetId, pages) ==
    IF targetId \in Range(pages) THEN targetId ELSE 0

\* A cleanup coroutine resumes after an await.
TabCleanupStep(s, i) ==
    /\ TabAtAwait(s)
    /\ i \in DOMAIN tab[s].cleanups
    /\ LET c == tab[s].cleanups[i]
           page == CleanupPage(c.targetId, browser.pages)
       IN
       CASE c.pc = "connect" ->
              \* await puppeteer.connect(...): on a throw, "Best effort"
              /\ tab' = [tab EXCEPT ![s] =
                           IF browser.alive THEN [@ EXCEPT !.cleanups[i].pc = "pages"]
                           ELSE TabCleanupExit(@)]
              /\ UNCHANGED <<browser, closeLog>>
         [] c.pc = "pages" ->
              \* await browser.pages(), the find, and page.close() sent
              /\ tab' = [tab EXCEPT ![s] =
                           IF page # 0
                           THEN [@ EXCEPT !.cleanups[i] =
                                    [pc |-> "close", targetId |-> c.targetId,
                                     page |-> page]]
                           ELSE TabCleanupExit(@)]
              /\ UNCHANGED <<browser, closeLog>>
         [] c.pc = "close" ->
              \* await page.close() resolves (or throws: the page is gone)
              /\ browser' = [browser EXCEPT !.pages = Without(@, c.page)]
              /\ closeLog' = IF c.page \in Range(browser.pages)
                             THEN closeLog \cup
                                  {[by |-> s, target |-> c.page, read |-> c.targetId]}
                             ELSE closeLog
              /\ tab' = [tab EXCEPT ![s] = TabCleanupExit(@)]
    /\ UNCHANGED <<crawl, files, executor, reaperVars, hook, restVars>>

TabNext(s) ==
    \/ TabStart(s)
    \/ TabConnected(s)
    \/ TabNewPage(s)
    \/ TabViewportSet(s)
    \/ TabWriteCdpUrl(s)
    \/ TabWritePid(s)
    \/ TabOpenTargetId(s)
    \/ TabWriteTargetId(s)
    \/ TabWriteUrl(s)
    \/ TabSignal(s)
    \/ TabCleanupStart(s)
    \/ \E i \in DOMAIN tab[s].cleanups : TabCleanupStep(s, i)

(***************************************************************************)
(* Capture hooks of one Snapshot: staticfile, ssl, dns, consolelog,        *)
(* redirects, responses (background), screenshot and chrome_wait           *)
(* (foreground).  hook.plugin = "chrome_tab" stands for the run in which   *)
(* the hook under study is the Tab Allocator itself: tab[HookSnap].        *)
(***************************************************************************)
HookSnap == "snapA"
Background == {"staticfile", "ssl", "dns", "consolelog", "redirects", "responses"}
CapturePlugins == Background \cup {"screenshot"}
Plugins == CapturePlugins \cup {"chrome_wait"}
\* process.on('SIGTERM' / 'SIGINT') comes before the connection is awaited
\* in these, and after it in the other background hooks.
HandlersBeforeSetup == {"redirects", "staticfile"}
\* The hooks whose emitResult() is guarded by `shuttingDown`.
GuardedEmit == {"dns", "ssl", "consolelog", "responses"}
\* The hooks that await createCDPSession() and Network.enable after
\* connectToPage().
CdpSession == {"dns", "redirects"}
\* Content-Type values the main response can carry (its header may be absent).
ContentTypes == {"", "text/html", "application/pdf", "image/png"}
STATIC_CONTENT_TYPES == {"application/pdf"}
STATIC_CONTENT_TYPE_PREFIXES == {"image/png"}
BufferOutcomes == {"ok", "too large", "throws"}

\* A hook process that the executor has not started yet.
NewHook(plugin, enabled, https, staticDone) ==
    [plugin |-> plugin, enabled |-> enabled, https |-> https,
     staticDone |-> staticDone,
     pc |-> "init", handlers |-> FALSE, signalled |-> FALSE,
     shuttingDown |-> FALSE, out |-> <<>>, exit |-> "running",
     touched |-> FALSE, targetId |-> 0, page |-> 0, listening |-> FALSE,
     firstResponseHandled |-> FALSE, detectedContentType |-> "",
     isStaticFile |-> FALSE, buffering |-> FALSE, downloadError |-> "",
     downloadedFilePath |-> "", sslFile |-> "", error |-> FALSE,
     waitTimedOut |-> FALSE, staticSaved |-> staticDone,
     responses |-> 0, inspected |-> 0, downloads |-> 0, lastMain |-> FALSE,
     events |-> 0, chain |-> 0, lines |-> 0, threw |-> FALSE, crashed |-> FALSE]

HookRunning == hook.pc \notin {"init", "exited"}

\* console.log(JSON.stringify({type: 'ArchiveResult', status, ...}))
HookEmit(h, status) == [h EXCEPT !.out = Append(@, status)]

\* Faulty variant: process.exit() is missing: the process stays.
HookExit_Returns(h, code) == h

\* process.exit(code)
HookExit(h, code) == [h EXCEPT !.pc = "exited", !.exit = code]

\* Faulty variant: every disabled plugin reports 'skipped'.
DisabledOutput_AlwaysSkipped(plugin) == <<"skipped">>

\* What a hook prints when <PLUGIN>_ENABLED is false.
DisabledOutput(plugin) ==
    IF plugin = "screenshot" THEN <<>> ELSE <<"skipped">>

\* Faulty variant: the error is reported but the process exits 0.
HookCatch_ExitsZero(h) ==
    HookExit(HookEmit([h EXCEPT !.error = TRUE], "failed"), "zero")

\* main()'s catch of a top-level error: one 'failed' ArchiveResult and exit
\* 1; screenshot's prints no ArchiveResult.
HookCatch(h) ==
    IF h.plugin = "screenshot" THEN HookExit([h EXCEPT !.error = TRUE], "nonzero")
    ELSE HookExit(HookEmit([h EXCEPT !.error = TRUE], "failed"), "nonzero")

\* isStaticContentType(contentType): an exact match of the set, or one of the
\* prefixes (here: the values of ContentTypes that start with one).
isStaticContentType(contentType) ==
    /\ contentType # ""
    /\ \/ contentType \in STATIC_CONTENT_TYPES
       \/ contentType \in STATIC_CONTENT_TYPE_PREFIXES

\* The status staticfile's handleShutdown() reports.
StaticfileStatus(h) ==
    IF h.detectedContentType = "" THEN "skipped"
    ELSE IF ~h.isStaticFile THEN "skipped"
    ELSE IF h.downloadError # "" THEN "failed"
    ELSE IF h.downloadedFilePath # "" THEN "succeeded"
    ELSE "failed"

\* emitResult(status) of dns, ssl, consolelog and responses.
emitResult(h, status) ==
    IF h.shuttingDown THEN h
    ELSE HookEmit([h EXCEPT !.shuttingDown = TRUE], status)

\* handleShutdown(signal): every variant ends in process.exit(0).
handleShutdown(h) ==
    HookExit(IF h.plugin = "staticfile" THEN HookEmit(h, StaticfileStatus(h))
             ELSE IF h.plugin \in GuardedEmit THEN emitResult(h, "succeeded")
             ELSE HookEmit(h, "succeeded"),
             "zero")

\* waitForChromeSession(): both files exist.
waitForChromeSession == files[HookSnap].cdp /\ files[HookSnap].tidFile

\* connectToPage()'s choice of page: the recorded target, else the last page
\* of the browser, else none (0).
connectToPage(targetId, pages) ==
    IF targetId # 0 /\ targetId \in Range(pages) THEN targetId
    ELSE IF pages # <<>> THEN pages[Len(pages)]
    ELSE 0

\* The executor starts the hook: main() up to its first await or its exit.
HookStart ==
    /\ hook.pc = "init"
    /\ hook.plugin \in Plugins
    /\ hook' =
         IF hook.plugin \in CapturePlugins /\ ~hook.enabled
         THEN HookExit([hook EXCEPT !.out = DisabledOutput(hook.plugin)], "zero")
         ELSE IF hook.plugin = "screenshot"
         THEN \* hasStaticFileOutput(), else takeScreenshot() starts polling
              IF hook.staticDone THEN HookExit(HookEmit(hook, "skipped"), "zero")
              ELSE [hook EXCEPT !.pc = "waitNav", !.touched = TRUE]
         ELSE IF hook.plugin = "ssl" /\ ~hook.https
         THEN \* setupListener(): throw new Error('URL is not HTTPS')
              HookCatch(hook)
         ELSE [hook EXCEPT !.pc = "waitSession", !.touched = TRUE,
                           !.handlers = hook.plugin \in HandlersBeforeSetup]
    /\ UNCHANGED <<reaperVars, tabVars, restVars>>

\* waitForChromeSession() returns true; the artifacts are read and
\* puppeteer.connect() is awaited.  chrome_wait reports and exits here.
HookSessionReady ==
    /\ hook.pc = "waitSession"
    /\ waitForChromeSession
    /\ hook' =
         IF hook.plugin = "chrome_wait"
         THEN IF files[HookSnap].tid = 0
              THEN HookExit(HookEmit(hook, "failed"), "nonzero")
              ELSE HookExit(HookEmit(hook, "succeeded"), "zero")
         ELSE [hook EXCEPT !.pc = "connect", !.targetId = files[HookSnap].tid]
    /\ UNCHANGED <<reaperVars, tabVars, restVars>>

\* waitForChromeSession() returns false after the timeout.
HookSessionTimeout ==
    /\ hook.pc = "waitSession"
    /\ ~waitForChromeSession
    /\ hook' = HookCatch(hook)
    /\ UNCHANGED <<reaperVars, tabVars, restVars>>

\* await puppeteer.connect({browserWSEndpoint}) resolves or throws.
HookConnected ==
    /\ hook.pc = "connect"
    /\ hook' = IF browser.alive THEN [hook EXCEPT !.pc = "pages"]
               ELSE HookCatch(hook)
    /\ UNCHANGED <<reaperVars, tabVars, restVars>>

\* The listeners are on the page; the late hooks register their signal
\* handlers now; waitForPageLoaded() starts.
HookArmed(h) ==
    [h EXCEPT !.pc = "waitLoaded", !.listening = TRUE, !.handlers = TRUE]

\* await browser.pages() resolves and the page is chosen.
HookFindPage ==
    /\ hook.pc = "pages"
    /\ hook.plugin \in Background
    /\ LET page == connectToPage(hook.targetId, browser.pages) IN
       hook' = IF page = 0 THEN HookCatch(hook)
               ELSE IF hook.plugin \in CdpSession
               THEN [hook EXCEPT !.pc = "cdp", !.page = page]
               ELSE HookArmed([hook EXCEPT !.page = page])
    /\ UNCHANGED <<reaperVars, tabVars, restVars>>

\* await createCDPSession() and client.send('Network.enable') resolve, or
\* throw because the page is gone.
HookCdpReady ==
    /\ hook.pc = "cdp"
    /\ hook' = IF hook.page \in Range(browser.pages) THEN HookArmed(hook)
               ELSE HookCatch(hook)
    /\ UNCHANGED <<reaperVars, tabVars, restVars>>

\* Faulty variant: the timeout of the wait reaches main's catch.
PageLoadedWait_Fatal(h, timedOut) ==
    IF timedOut THEN HookCatch([h EXCEPT !.waitTimedOut = TRUE])
    ELSE [h EXCEPT !.pc = "armed"]

\* Faulty variant: the hook reports as soon as its wait is over.
PageLoadedWait_Reports(h, timedOut) ==
    HookExit(HookEmit([h EXCEPT !.waitTimedOut = timedOut], "succeeded"), "zero")

\* try { await waitForPageLoaded(...) } catch (e) { console.error(WARN) }:
\* either way main goes on to its indefinite wait.
PageLoadedWait(h, timedOut) ==
    [h EXCEPT !.pc = "armed", !.waitTimedOut = timedOut]

\* waitForPageLoaded() finds page_loaded.txt (at this poll; at the first one
\* when it was there already), or gives up without it.
HookPageLoaded(timedOut) ==
    /\ hook.pc = "waitLoaded"
    /\ timedOut <=> ~files[HookSnap].loaded
    /\ hook' = PageLoadedWait(hook, timedOut)
    /\ UNCHANGED <<reaperVars, tabVars, restVars>>

\* Faulty variant: every 2xx response for the navigated URL is inspected.
ResponseInspected_Every(h, isMain, is2xx) ==
    isMain /\ is2xx

\* The listener's filter: `if (firstResponseHandled) return`, then only a
\* response whose URL is originalUrl and whose status is 2xx goes on.
ResponseInspected(h, isMain, is2xx) ==
    ~h.firstResponseHandled /\ isMain /\ is2xx

\* staticfile's page.on('response') up to `await response.buffer()`, for any
\* response of the page (isMain: its URL is the navigated one).  responses,
\* inspected and downloads count the events, those that passed the filter
\* and the buffer() calls begun.
HookResponse(isMain, is2xx, contentType) ==
    /\ HookRunning
    /\ hook.plugin = "staticfile"
    /\ hook.listening
    /\ hook.responses < MaxResponses
    /\ LET h == [hook EXCEPT !.responses = @ + 1, !.lastMain = isMain]
       IN hook' =
            IF ResponseInspected(hook, isMain, is2xx)
            THEN [h EXCEPT !.firstResponseHandled = TRUE,
                           !.inspected = @ + 1,
                           !.detectedContentType = contentType,
                           !.isStaticFile = isStaticContentType(contentType),
                           !.buffering = isStaticContentType(contentType),
                           !.downloads = IF isStaticContentType(contentType)
                                         THEN @ + 1 ELSE @]
            ELSE h
    /\ UNCHANGED <<reaperVars, tabVars, restVars>>

\* `await response.buffer()` resolves or throws, and the listener finishes.
HookBuffer(outcome) ==
    /\ HookRunning
    /\ hook.buffering
    /\ hook' = [hook EXCEPT
                  !.buffering = FALSE,
                  !.downloadError = IF outcome = "ok" THEN "" ELSE outcome,
                  !.downloadedFilePath = IF outcome = "ok" THEN "file" ELSE ""]
    /\ UNCHANGED <<reaperVars, tabVars, restVars>>

\* SIGTERM or SIGINT reaches the hook while it waits in the event loop: the
\* handler runs if one is registered, else the signal ends the process.
HookSignal ==
    /\ HookRunning
    /\ executor.signals > 0
    /\ executor' = [executor EXCEPT !.signals = @ - 1]
    /\ hook' = IF hook.handlers
               THEN handleShutdown([hook EXCEPT !.signalled = TRUE])
               ELSE [hook EXCEPT !.signalled = TRUE, !.pc = "exited",
                                 !.exit = "signal"]
    /\ UNCHANGED <<reaperVars, browser, crawl, files, tab, closeLog, restVars>>

\* ssl's page.on('response'): for the main frame's navigation response to the
\* target URL the security state is written to the output file (sslFile is
\* its securityState, "" while there is no file).  The URL begins with
\* https://, so the 'insecure' branch is never taken.
HookSslResponse(isNavigation, hasSecurityDetails) ==
    /\ hook.plugin = "ssl"
    /\ hook.listening
    /\ hook.pc # "exited"
    /\ isNavigation
    /\ hook' = [hook EXCEPT !.sslFile = IF hasSecurityDetails THEN "secure"
                                        ELSE IF hook.https THEN "unknown"
                                        ELSE "insecure"]
    /\ UNCHANGED <<reaperVars, tabVars, restVars>>

\* chrome_navigate finishes: navigation.json and page_loaded.txt appear.
Navigate(s) ==
    /\ files[s].url
    /\ ~files[s].loaded
    /\ files' = [files EXCEPT ![s].loaded = TRUE]
    /\ UNCHANGED <<reaperVars, browser, crawl, tab, executor, closeLog, hook, restVars>>

\* screenshot: waitForChromeTabLoaded() sees navigation.json; the artifacts
\* are read and puppeteer.connect() is awaited.
ShotNavigated ==
    /\ hook.pc = "waitNav"
    /\ files[HookSnap].loaded
    /\ hook' = IF ~files[HookSnap].cdp \/ ~files[HookSnap].tidFile
               THEN HookCatch(hook)
               ELSE [hook EXCEPT !.pc = "connect", !.targetId = files[HookSnap].tid]
    /\ UNCHANGED <<reaperVars, tabVars, restVars>>

\* waitForChromeTabLoaded() returns false after the timeout.
ShotNavTimeout ==
    /\ hook.pc = "waitNav"
    /\ ~files[HookSnap].loaded
    /\ hook' = HookCatch(hook)
    /\ UNCHANGED <<reaperVars, tabVars, restVars>>

\* takeScreenshot(): browser.targets().find(...) with no fallback, then
\* setViewport and page.screenshot are awaited.
ShotFindTarget ==
    /\ hook.pc = "pages"
    /\ hook.plugin = "screenshot"
    /\ hook' = IF hook.targetId \in Range(browser.pages)
               THEN [hook EXCEPT !.pc = "shot", !.page = hook.targetId]
               ELSE HookCatch(hook)
    /\ UNCHANGED <<reaperVars, tabVars, restVars>>

\* page.screenshot() resolves (one 'succeeded' result, natural exit) or
\* throws.
ShotTaken(ok) ==
    /\ hook.pc = "shot"
    /\ hook' = IF ok THEN HookExit(HookEmit(hook, "succeeded"), "zero")
               ELSE HookCatch(hook)
    /\ UNCHANGED <<reaperVars, tabVars, restVars>>

\* An exception leaves a listener that has no try around its body.  It
\* surfaces in the caller that dispatched the protocol message, as an
\* uncaught exception or an unhandled rejection: the process ends with a
\* non-zero code and nothing printed, or, where the runtime only warns about
\* unhandled rejections, it goes on.
UncaughtInListener(h, fatal) ==
    IF fatal THEN HookExit([h EXCEPT !.threw = TRUE, !.crashed = TRUE], "nonzero")
    ELSE [h EXCEPT !.threw = TRUE]

\* redirects' client.on('Network.requestWillBeSent'): for a redirect the
\* entry is pushed on redirectChain and appended to redirects.jsonl; the
\* handler body is not wrapped in try/catch, so a failing appendFileSync
\* throws out of it.
RedirectRequestWillBeSent(isRedirect, appendThrows, fatal) ==
    /\ HookRunning
    /\ hook.plugin = "redirects"
    /\ hook.listening
    /\ hook.events < MaxRedirectEvents
    /\ LET h == [hook EXCEPT !.events = @ + 1] IN
       hook' = IF ~isRedirect THEN h
               ELSE IF appendThrows
               THEN UncaughtInListener([h EXCEPT !.chain = @ + 1], fatal)
               ELSE [h EXCEPT !.chain = @ + 1, !.lines = @ + 1]
    /\ UNCHANGED <<reaperVars, tabVars, restVars>>

\* redirects' page.on('load'): the meta-refresh and script checks run inside
\* try/catch, so a throw (page gone, append failing) is dropped there.
RedirectPageLoad(found, throws) ==
    /\ HookRunning
    /\ hook.plugin = "redirects"
    /\ hook.listening
    /\ hook.events < MaxRedirectEvents
    /\ LET h == [hook EXCEPT !.events = @ + 1] IN
       hook' = IF throws THEN [h EXCEPT !.threw = TRUE]
               ELSE IF found THEN [h EXCEPT !.chain = @ + 1, !.lines = @ + 1]
               ELSE h
    /\ UNCHANGED <<reaperVars, tabVars, restVars>>

\* hasStaticFileOutput(): ../staticfile/stdout.log, the staticfile hook's
\* stdout so far, holds an ArchiveResult with status 'succeeded'.
hasStaticFileOutput(stdoutLog) ==
    \E i \in DOMAIN stdoutLog : stdoutLog[i] = "succeeded"

\* The executor starts the Snapshot's screenshot hook while the staticfile
\* hook is resident, or after it has ended.  From here on `hook` is the
\* screenshot process; staticSaved records whether staticfile had saved
\* the document by then.
ShotAfterStaticfile(enabled) ==
    /\ hook.plugin = "staticfile"
    /\ hook.pc # "init"
    /\ hook' = [NewHook("screenshot", enabled, hook.https,
                        hasStaticFileOutput(hook.out))
                  EXCEPT !.staticSaved = hook.downloadedFilePath # ""]
    /\ UNCHANGED <<reaperVars, tabVars, restVars>>

(***************************************************************************)
(* The dns hook's recorder: the Network.responseReceived and               *)
(* Network.loadingFailed handlers that setupListener installs.             *)
(***************************************************************************)
\* Host names as extractHostname returns them ("" when the URL does not
\* parse) and addresses as response.remoteIPAddress ("" when absent, as for a
\* response served from cache).  One host is an IP literal.
Hostnames == {"a.test", "10.0.0.1"}
Addresses == {"10.0.0.1", "2001:db8::1"}
NoDns == [seen |-> {}, file |-> <<>>, observed |-> {}, repeated |-> FALSE,
          events |-> 0]
DnsListening == hook.plugin = "dns" /\ hook.listening /\ hook.pc # "exited"

\* remoteIPAddress.includes(':') ? 'AAAA' : 'A'
recordType(remoteIPAddress) ==
    IF remoteIPAddress = "2001:db8::1" THEN "AAAA" ELSE "A"

\* Faulty variant: the recorder forgets what it has written.
RememberResolution_Forgets(seen, resolutionKey) ==
    seen

\* seenResolutions.set(resolutionKey, true)
RememberResolution(seen, resolutionKey) ==
    seen \cup {resolutionKey}

\* client.on('Network.responseReceived', ...)
DnsResponseReceived(hostname, remoteIPAddress) ==
    /\ DnsListening
    /\ dns.events < MaxDnsEvents
    /\ LET resolutionKey == hostname \o ":" \o remoteIPAddress
           d == [dns EXCEPT !.events = @ + 1,
                            !.observed = IF hostname # "" /\ remoteIPAddress # ""
                                         THEN @ \cup {<<hostname, remoteIPAddress>>}
                                         ELSE @,
                            !.repeated = @ \/ <<hostname, remoteIPAddress>> \in dns.observed]
       IN dns' = IF remoteIPAddress = "" \/ hostname = ""
                    \/ hostname = remoteIPAddress
                    \/ resolutionKey \in dns.seen
                 THEN d
                 ELSE [d EXCEPT !.seen = RememberResolution(@, resolutionKey),
                                !.file = Append(@, [type |-> recordType(remoteIPAddress),
                                                    hostname |-> hostname,
                                                    ip |-> remoteIPAddress])]
    /\ UNCHANGED <<reaperVars, tabVars, hook, session, chrome, calc, captcha, cache>>

\* client.on('Network.loadingFailed', ...): requestKnown is whether
\* requestUrls holds the request, nameError whether errorText carries
\* net::ERR_NAME_NOT_RESOLVED or net::ERR_NAME_RESOLUTION_FAILED.
DnsLoadingFailed(hostname, requestKnown, nameError) ==
    /\ DnsListening
    /\ dns.events < MaxDnsEvents
    /\ LET resolutionKey == hostname \o ":" \o "NXDOMAIN"
           d == [dns EXCEPT !.events = @ + 1]
       IN dns' = IF ~requestKnown \/ hostname = "" \/ ~nameError
                    \/ resolutionKey \in dns.seen
                 THEN d
                 ELSE [d EXCEPT !.seen = RememberResolution(@, resolutionKey),
                                !.file = Append(@, [type |-> "NXDOMAIN",
                                                    hostname |-> hostname,
                                                    ip |-> ""])]
    /\ UNCHANGED <<reaperVars, tabVars, hook, session, chrome, calc, captcha, cache>>

(***************************************************************************)
(* Session Launcher: on_Crawl__90_chrome_launch, launchChromium and        *)
(* killChrome.  One launcher process at a time serves the Crawl; the       *)
(* browsers it spawns are detached and outlive it.                         *)
(***************************************************************************)
BrowserPids == 1..MaxLaunches
LauncherRunning == session.pc \in {"waitPort", "connect", "resident"}
NewSession(launches) ==
    [pc |-> "idle", cpc |-> "none", chromePid |-> 0, browserInstance |-> FALSE,
     exit |-> "none", signalled |-> FALSE, target |-> 0, launches |-> launches,
     pidFile |-> 0, portFile |-> 0, closeTried |-> FALSE, closeOk |-> FALSE,
     cdpFile |-> FALSE, wroteCdp |-> FALSE, polls |-> 0, reply |-> "none",
     launched |-> "none", pending |-> 0, settled |-> "none"]
NoChrome ==
    [alive |-> [p \in BrowserPids |-> FALSE], spawned |-> 0,
     related |-> [p \in BrowserPids |-> FALSE], sent |-> <<>>, unkillable |-> {}]

\* process.exit(code): the main flow and a cleanup() under way both end.
LauncherExit(s, code) ==
    [s EXCEPT !.pc = "exited", !.cpc = "none", !.exit = code, !.pending = 0]

\* process.kill(-pid, sig), falling back to process.kill(pid, sig): delivered
\* when the process is there, an exception that is logged when it is not.
SendSignal(c, sig, p) ==
    IF c.alive[p]
    THEN [c EXCEPT !.sent = Append(@, [sig |-> sig, pid |-> p, related |-> FALSE])]
    ELSE c

\* killZombieChrome() as launchChromium's first step: the marker of a Crawl
\* that went stale is removed and its process killed; an active Crawl's is
\* left alone.
ReapBeforeLaunch(c, stale, pidFile) ==
    IF stale /\ pidFile # 0
    THEN [c EXCEPT !.alive[pidFile] = FALSE]
    ELSE c

\* main up to launchChromium's spawn(): a detached browser is started and
\* its pid written to chrome.pid before the debug port is awaited.
LaunchStart(stale, hasRelated) ==
    /\ session.pc \in {"idle", "exited"}
    /\ session.launches > 0
    /\ chrome.spawned < MaxLaunches
    /\ LET p == chrome.spawned + 1
           c == ReapBeforeLaunch(chrome, stale, session.pidFile)
       IN /\ chrome' = [c EXCEPT !.alive[p] = TRUE, !.spawned = p,
                                 !.related[p] = hasRelated]
          /\ session' = [session EXCEPT
                             !.pc = "waitPort", !.cpc = "none", !.chromePid = 0,
                             !.browserInstance = FALSE, !.exit = "running",
                             !.signalled = FALSE, !.target = 0,
                             !.launches = @ - 1, !.pidFile = p,
                             !.closeTried = FALSE, !.closeOk = FALSE,
                             !.wroteCdp = FALSE, !.polls = 0,
                             !.reply = "none", !.launched = "none",
                             !.pending = 1, !.settled = "none"]
    /\ UNCHANGED <<reaperVars, tabVars, hook, dns, calc, captcha, cache>>

\* What one GET /json/version of waitForDebugPort ends in: a connection
\* error, the 1000 ms request timeout, a body that JSON.parse rejects, a
\* parsed payload without webSocketDebuggerUrl, a parsed payload with it.
DebugReplies == {"error", "timeout", "unparseable", "noWsUrl", "wsUrl"}
Parseable == {"noWsUrl", "wsUrl"}

\* Faulty variant: an absent URL is written out as text and success returned.
WritesCdpUrl_Coerced(reply) ==
    reply \in Parseable

\* fs.writeFileSync(cdp_url.txt, wsUrl) succeeds for a string; for the
\* undefined of a payload without the field it throws before the file is
\* opened, which launchChromium's catch turns into success:false.
WritesCdpUrl(reply) ==
    reply = "wsUrl"

\* The setTimeout(tryConnect, 100) calls one failed attempt makes.  The
\* 'end' handler's catch and the 'error' handler make one each.  The timeout
\* callback calls req.destroy() and makes one; hangUp says that no response
\* had arrived, in which case the destroyed request emits 'error' (socket
\* hang up) and the 'error' handler makes another.
RetriesScheduled(reply, hangUp) ==
    IF reply = "timeout" /\ hangUp THEN 2 ELSE 1

\* One attempt of waitForDebugPort failed: the next is scheduled in 100 ms.
\* `pending` counts the attempts in flight or scheduled.
LaunchPortRetry(reply, hangUp) ==
    /\ session.pc = "waitPort"
    /\ reply \notin Parseable
    /\ hangUp => reply = "timeout"
    /\ session.pending > 0
    /\ session.polls < MaxPolls
    /\ session' = [session EXCEPT !.polls = @ + 1, !.reply = reply,
                                  !.pending = @ - 1 + RetriesScheduled(reply, hangUp)]
    /\ UNCHANGED <<chrome, reaperVars, tabVars, hook, dns, calc, captcha, cache>>

\* waitForDebugPort resolved with the parsed payload: cdp_url.txt and
\* port.txt are written, launchChromium returns success and main records
\* chromePid; or the write throws and main exits 1.
LaunchPortReady(reply) ==
    /\ session.pc = "waitPort"
    /\ reply \in Parseable
    /\ session.pending > 0
    /\ chrome.alive[session.pidFile]
    /\ session' =
         IF WritesCdpUrl(reply)
         THEN [session EXCEPT !.pc = "connect", !.chromePid = session.pidFile,
                              !.portFile = session.pidFile, !.reply = reply,
                              !.cdpFile = TRUE, !.wroteCdp = TRUE,
                              !.launched = "success",
                              !.pending = @ - 1, !.settled = "resolved"]
         ELSE LauncherExit([session EXCEPT !.reply = reply,
                                           !.launched = "failure",
                                           !.settled = "resolved"], "nonzero")
    /\ UNCHANGED <<chrome, reaperVars, tabVars, hook, dns, calc, captcha, cache>>

\* waitForDebugPort timed out: launchChromium's catch returns success:false
\* and main exits 1.  The spawned browser is not signalled.
LaunchPortTimeout ==
    /\ session.pc = "waitPort"
    /\ session.pending > 0
    /\ session' = LauncherExit([session EXCEPT !.launched = "failure",
                                               !.settled = "rejected"], "nonzero")
    /\ UNCHANGED <<chrome, reaperVars, tabVars, hook, dns, calc, captcha, cache>>

\* An attempt of waitForDebugPort that was still in flight or scheduled when
\* the promise resolved runs in the launcher that went on: a parsed payload
\* (or the 30 s check of tryConnect) ends its chain, the resolve or reject
\* being without effect; a failure schedules again.
LaunchStrayPoll(reply, hangUp) ==
    /\ session.pc \in {"connect", "resident"}
    /\ session.settled = "resolved"
    /\ session.pending > 0
    /\ hangUp => reply = "timeout"
    /\ reply \notin Parseable => session.polls < MaxPolls + 1
    /\ session' =
         IF reply \in Parseable
         THEN [session EXCEPT !.pending = @ - 1]
         ELSE [session EXCEPT !.polls = @ + 1,
                              !.pending = @ - 1 + RetriesScheduled(reply, hangUp)]
    /\ UNCHANGED <<chrome, reaperVars, tabVars, hook, dns, calc, captcha, cache>>

\* puppeteer.connect resolved (cookie import and extension discovery follow
\* without changing the Session's processes or markers).
LaunchConnected ==
    /\ session.pc = "connect"
    /\ chrome.alive[session.chromePid]
    /\ session' = [session EXCEPT !.pc = "resident", !.browserInstance = TRUE]
    /\ UNCHANGED <<chrome, reaperVars, tabVars, hook, dns, calc, captcha, cache>>

\* puppeteer.connect (or a later step) threw: main's catch exits 1.
LaunchConnectFails ==
    /\ session.pc = "connect"
    /\ session' = LauncherExit(session, "nonzero")
    /\ UNCHANGED <<chrome, reaperVars, tabVars, hook, dns, calc, captcha, cache>>

\* killChrome(pid, outputDir) up to its first wait: SIGTERM to the group.
killChrome_Begin(s) ==
    /\ session' = [s EXCEPT !.cpc = "termWait", !.target = s.chromePid]
    /\ chrome' = SendSignal(chrome, "SIGTERM", s.chromePid)

\* SIGTERM or SIGINT reaches the launcher: cleanup() runs up to its first
\* await.  The executor signals an invocation once.
LauncherSignal ==
    /\ LauncherRunning
    /\ ~session.signalled
    /\ LET s == [session EXCEPT !.signalled = TRUE]
       IN IF s.browserInstance
          THEN session' = [s EXCEPT !.cpc = "closing"] /\ UNCHANGED chrome
          ELSE IF s.chromePid # 0
          THEN killChrome_Begin(s)
          ELSE session' = LauncherExit(s, "zero") /\ UNCHANGED chrome
    /\ UNCHANGED <<reaperVars, tabVars, hook, dns, calc, captcha, cache>>

\* browserInstance.close() settled; killChrome(chromePid) follows either way.
LauncherCloseDone(ok) ==
    /\ session.cpc = "closing"
    /\ ok => chrome.alive[session.chromePid]
    /\ killChrome_Begin([session EXCEPT !.closeTried = TRUE, !.closeOk = ok,
                                        !.browserInstance = IF ok THEN FALSE ELSE @])
    /\ UNCHANGED <<reaperVars, tabVars, hook, dns, calc, captcha, cache>>

\* killChrome after the 2000 ms grace wait: a dead process ends the kill, a
\* live one is sent SIGKILL.
LauncherTermWaitDone ==
    /\ session.cpc = "termWait"
    /\ IF chrome.alive[session.target]
       THEN /\ chrome' = SendSignal(chrome, "SIGKILL", session.target)
            /\ session' = [session EXCEPT !.cpc = "killWait"]
       ELSE /\ session' = LauncherExit([session EXCEPT !.pidFile = 0], "zero")
            /\ UNCHANGED chrome
    /\ UNCHANGED <<reaperVars, tabVars, hook, dns, calc, captcha, cache>>

\* The final SIGKILL of killChrome's unkillable branch: every other process
\* group found on the debug port recorded in port.txt.
KillRelatedGroups(c, portFile) ==
    IF portFile # 0 /\ c.related[portFile]
    THEN [c EXCEPT !.sent = Append(@, [sig |-> "SIGKILL", pid |-> portFile,
                                       related |-> TRUE])]
    ELSE c

\* killChrome after the 1000 ms wait that follows SIGKILL: liveness is
\* checked once more, chrome.pid is unlinked, cleanup() exits 0.
LauncherKillWaitDone ==
    /\ session.cpc = "killWait"
    /\ LET p == session.target
       IN chrome' = IF chrome.alive[p]
                    THEN KillRelatedGroups([chrome EXCEPT !.unkillable = @ \cup {p}],
                                           session.portFile)
                    ELSE chrome
    /\ session' = LauncherExit([session EXCEPT !.pidFile = 0], "zero")
    /\ UNCHANGED <<reaperVars, tabVars, hook, dns, calc, captcha, cache>>

\* The launcher process dies without running any handler (SIGKILL, OOM).
LauncherCrash ==
    /\ LauncherRunning
    /\ session' = LauncherExit(session, "killed")
    /\ UNCHANGED <<chrome, reaperVars, tabVars, hook, dns, calc, captcha, cache>>

\* A browser process ends: it obeyed a close or a signal, or it crashed.
ChromeExits(p) ==
    /\ chrome.alive[p]
    /\ chrome' = [chrome EXCEPT !.alive[p] = FALSE]
    /\ UNCHANGED <<session, reaperVars, tabVars, hook, dns, calc, captcha, cache>>

(***************************************************************************)
(* Pure functions: getExtensionId, launchChromium's argument list and the  *)
(* static-file downloader's file name.  `calc` holds the inputs of one     *)
(* evaluation and, once it has run, its result.                            *)
(***************************************************************************)
NoCalc == [op |-> "none", in |-> <<>>, out |-> <<>>, done |-> FALSE]

\* ---- getExtensionId ----
\* Paths an extension may be given by, and what fs.realpathSync makes of
\* each in a filesystem: another path, or NoEnt when it throws.
Paths == {"/ext/a", "/link"}
NoEnt == "ENOENT"
FileSystems == [Paths -> Paths \cup {NoEnt}]
\* State a call does not read: the working directory of the caller.
Cwds == {"/data", "/tmp"}
HexDigits == 0..15
Letters == <<"a", "b", "c", "d", "e", "f", "g", "h",
             "i", "j", "k", "l", "m", "n", "o", "p">>

\* Faulty variant: the path is hashed as given, symlinks unresolved.
ResolvedPath_AsGiven(fs, unpacked_path) ==
    unpacked_path

\* let resolved_path = fs.realpathSync(unpacked_path), or the path as given
\* when realpathSync throws.
ResolvedPath(fs, unpacked_path) ==
    IF fs[unpacked_path] = NoEnt THEN unpacked_path ELSE fs[unpacked_path]

\* crypto.createHash('sha256').update(path).digest('hex'): DigestHexLen hex
\* digits that depend on the bytes of the path and on nothing else.  The
\* digits are a stand-in for SHA-256, distinct for the paths of the model.
PathCode(path) ==
    CASE path = "/ext/a" -> 3
      [] path = "/link"  -> 7
Sha256Hex(path) ==
    [i \in 1..DigestHexLen |-> (PathCode(path) * i + (i * i) \div 3) % 16]

\* Array.from(hex).slice(0, 32).map(i => fromCharCode(parseInt(i, 16) + 'a'))
getExtensionId(fs, unpacked_path) ==
    LET hex == Sha256Hex(ResolvedPath(fs, unpacked_path))
        n == IF Len(hex) < ExtensionIdLen THEN Len(hex) ELSE ExtensionIdLen
    IN [i \in 1..n |-> Letters[hex[i] + 1]]

ExtensionIdInputs ==
    {[fsA |-> f, fsB |-> g, pathA |-> a, pathB |-> b, cwdA |-> "/data", cwdB |-> c] :
        f \in FileSystems, g \in FileSystems, a \in Paths, b \in Paths, c \in Cwds}

\* Two calls, made from the working directories cwdA and cwdB while the
\* filesystem is fsA and fsB.
CallGetExtensionId ==
    /\ calc.op = "getExtensionId"
    /\ ~calc.done
    /\ calc' = [calc EXCEPT !.done = TRUE,
                            !.out = [idA |-> getExtensionId(calc.in.fsA, calc.in.pathA),
                                     idB |-> getExtensionId(calc.in.fsB, calc.in.pathB)]]
    /\ UNCHANGED <<reaperVars, tabVars, hook, session, chrome, dns, captcha, cache>>

\* ---- launchChromium: the browser's argument list ----
SeqsUpTo(S, n) == UNION {[1..k -> S] : k \in 0..n}
Flag(key, val) == [key |-> key, val |-> val]
\* Flags as CHROME_ARGS and CHROME_ARGS_EXTRA may carry them.
ConfigFlags ==
    {Flag("--headless", "old"), Flag("--window-size", "800,600"),
     Flag("--lang", "en"), Flag("--lang", "fr")}
ArgLists == SeqsUpTo(ConfigFlags, MaxLayerArgs)

\* const dynamicArgs = [...]: the flags computed at run time (userDataDir is
\* the persona's directory, which get_config() always sets).
dynamicArgs(o) ==
    <<Flag("--remote-debugging-port", "9222"),
      Flag("--remote-debugging-address", "127.0.0.1")>>
    \o (IF o.sandbox THEN <<>>
        ELSE <<Flag("--no-sandbox", ""), Flag("--disable-setuid-sandbox", "")>>)
    \o <<Flag("--disable-dev-shm-usage", ""), Flag("--disable-gpu", ""),
         Flag("--window-size", "1440,2000"),
         Flag("--user-data-dir", "/data/personas/Default")>>
    \o (IF o.headless THEN <<Flag("--headless", "new")>> ELSE <<>>)
    \o (IF o.checkSsl THEN <<>> ELSE <<Flag("--ignore-certificate-errors", "")>>)

\* const chromiumArgs = [...baseArgs, ...dynamicArgs, ...extraArgs], then the
\* pushes of --use-mock-keychain, the extension flags and 'about:blank'.
chromiumArgs(baseArgs, o, extraArgs) ==
    LET all == baseArgs \o dynamicArgs(o) \o extraArgs
        keychain == IF \E i \in DOMAIN all : all[i] = Flag("--use-mock-keychain", "")
                    THEN all ELSE Append(all, Flag("--use-mock-keychain", ""))
        ext == IF o.extensions
               THEN keychain \o
                    <<Flag("--load-extension", "/ext/a"),
                      Flag("--enable-unsafe-extension-debugging", ""),
                      Flag("--disable-features",
                           "DisableLoadExtensionCommandLineSwitch,ExtensionManifestV2Unsupported,ExtensionManifestV2Disabled")>>
               ELSE keychain
    IN Append(ext, Flag("about:blank", ""))

LaunchOptions ==
    [sandbox : BOOLEAN, headless : BOOLEAN, checkSsl : BOOLEAN, extensions : BOOLEAN]
ChromiumArgsInputs ==
    {[baseArgs |-> b, options |-> o, extraArgs |-> e] :
        b \in ArgLists, o \in LaunchOptions, e \in ArgLists}

CallChromiumArgs ==
    /\ calc.op = "chromiumArgs"
    /\ ~calc.done
    /\ calc' = [calc EXCEPT !.done = TRUE,
                            !.out = chromiumArgs(calc.in.baseArgs, calc.in.options,
                                                 calc.in.extraArgs)]
    /\ UNCHANGED <<reaperVars, tabVars, hook, session, chrome, dns, captcha, cache>>

\* ---- the static-file downloader's file name ----
\* Text is a sequence of characters.  NameChars are the characters a
\* file name in a header may be made of, PathChars those of a URL path.
NameChars == {"x", ".", " ", ";", "'"}
PathChars == {"x", ".", "/"}
SafeChars == {"x", "p", "d", "f", ".", "_", "-"}
XPdf == <<"x", ".", "p", "d", "f">>
Names == (SeqsUpTo(NameChars, MaxNameLen) \ {<<>>}) \cup {XPdf}
Pathnames == {<<"/">> \o p : p \in SeqsUpTo(PathChars, MaxNameLen)}
DefaultFilename == <<"downloaded_file">>
Min(a, b) == IF a < b THEN a ELSE b

\* str.replace(/[^a-zA-Z0-9._-]/g, '_').slice(0, maxLen)
sanitizeFilename(str) ==
    [i \in 1..Min(Len(str), SanitizeMaxLen) |->
        IF str[i] \in SafeChars THEN str[i] ELSE "_"]

\* String.prototype.trim
RECURSIVE Trim(_)
Trim(s) ==
    IF s = <<>> THEN s
    ELSE IF s[1] = " " THEN Trim(Tail(s))
    ELSE IF s[Len(s)] = " " THEN Trim(SubSeq(s, 1, Len(s) - 1))
    ELSE s

\* path.basename(pathname): trailing slashes dropped, then what follows the
\* last slash.
RECURSIVE Basename(_)
Basename(p) ==
    IF p = <<>> THEN p
    ELSE IF p[Len(p)] = "/" THEN Basename(SubSeq(p, 1, Len(p) - 1))
    ELSE LET slashes == {i \in DOMAIN p : p[i] = "/"}
             last == IF slashes = {} THEN 0
                     ELSE CHOOSE i \in slashes : \A j \in slashes : j <= i
         IN SubSeq(p, last + 1, Len(p))

\* getFilenameFromUrl(url)
getFilenameFromUrl(pathname) ==
    LET filename == IF Basename(pathname) = <<>> THEN DefaultFilename
                    ELSE Basename(pathname)
    IN sanitizeFilename(filename)

\* The header after `filename=`: the name between double quotes.
HeaderTail(F) == <<"\"">> \o F \o <<"\"">>

\* contentDisp.match(/filename[*]?=["']?([^"';\n]+)/): what the group
\* captures from the text that follows `filename=`, <<>> when nothing matches.
RegexStop == {"\"", "'", ";", "\n"}
RegexCapture(tail) ==
    LET from == IF tail # <<>> /\ tail[1] \in {"\"", "'"} THEN 2 ELSE 1
        stops == {i \in from..Len(tail) : tail[i] \in RegexStop}
        end == IF stops = {} THEN Len(tail)
               ELSE (CHOOSE i \in stops : \A j \in stops : i <= j) - 1
    IN SubSeq(tail, from, end)

\* The response handler's choice of file name.
StaticFilename(hasDisposition, F, pathname) ==
    LET match == RegexCapture(HeaderTail(F))
    IN IF hasDisposition /\ match # <<>>
       THEN sanitizeFilename(Trim(match))
       ELSE getFilenameFromUrl(pathname)

StaticFilenameInputs ==
    {[hasDisposition |-> h, F |-> f, pathname |-> p] :
        h \in BOOLEAN, f \in Names, p \in Pathnames}

CallStaticFilename ==
    /\ calc.op = "staticFilename"
    /\ ~calc.done
    /\ calc' = [calc EXCEPT !.done = TRUE,
                            !.out = StaticFilename(calc.in.hasDisposition, calc.in.F,
                                                   calc.in.pathname)]
    /\ UNCHANGED <<reaperVars, tabVars, hook, session, chrome, dns, captcha, cache>>

(***************************************************************************)
(* Specifications                                                          *)
(***************************************************************************)
NoFiles ==
    [cdp |-> FALSE, pid |-> FALSE, tidFile |-> FALSE, tid |-> 0,
     url |-> FALSE, loaded |-> FALSE]

\* What createTabInExistingChrome() leaves on disk for target t.
TabFiles(t) ==
    [cdp |-> TRUE, pid |-> TRUE, tidFile |-> TRUE, tid |-> t,
     url |-> TRUE, loaded |-> FALSE]

\* ======================================================================
\* The 2captcha configuration hook (on_Crawl__95_twocaptcha_config.js)
\* ======================================================================
\* TWOCAPTCHA_API_KEY as the hook finds it: unset, the placeholder, or a key.
ApiKeys == {"", "YOUR_API_KEY_HERE", "k1", "k2"}
\* The keys the extension's storage can hand back ("" = the field is unset).
StoredKeys == {"", "k1", "k2"}
\* What Config.getAll() evaluates to after the reload: nothing (the
\* evaluation failed or returned null), or a configuration object.
VerifyConfigs ==
    {[present |-> FALSE, apiKey |-> "", api_key |-> ""]}
        \cup {[present |-> TRUE, apiKey |-> a, api_key |-> b] :
                a \in StoredKeys, b \in StoredKeys}

NoCaptcha ==
    [pc |-> "idle", apiKey |-> "", marker |-> FALSE, cdpFile |-> FALSE,
     wroteMarker |-> FALSE, readBack |-> FALSE,
     verifyConfig |-> [present |-> FALSE, apiKey |-> "", api_key |-> ""],
     status |-> "none", exit |-> "running"]

NewCaptcha(apiKey, marker, cdpFile) ==
    [NoCaptcha EXCEPT !.pc = "init", !.apiKey = apiKey, !.marker = marker,
                      !.cdpFile = cdpFile]

\* main: result.skipped -> 'skipped', result.success -> 'succeeded', else
\* 'failed'; the process exits 0 for succeeded and skipped, 1 otherwise.
CaptchaExit(c, status) ==
    [c EXCEPT !.pc = "done", !.status = status,
              !.exit = IF status \in {"succeeded", "skipped"}
                       THEN "zero" ELSE "nonzero"]

\* verifyConfig.apiKey || verifyConfig.api_key
ActualApiKey(v) == IF v.apiKey # "" THEN v.apiKey ELSE v.api_key

\* Faulty variant: a mismatch of the stored key is only warned about.
VerifyOutcome_WarnsOnMismatch(v, expected) ==
    IF ~v.present THEN "failed" ELSE "succeeded"

\* The check after the reload: no configuration, no key, or a key other than
\* the one written is a failure; only an equal key is a success.
VerifyOutcome(v, expected) ==
    IF ~v.present THEN "failed"
    ELSE IF ActualApiKey(v) = "" \/ ActualApiKey(v) # expected THEN "failed"
    ELSE "succeeded"

\* configure2Captcha up to the browser connection: an existing marker skips,
\* a missing or placeholder key fails, a missing cdp_url.txt fails.
CaptchaStart ==
    /\ captcha.pc = "init"
    /\ captcha' =
         IF captcha.marker THEN CaptchaExit(captcha, "skipped")
         ELSE IF captcha.apiKey \in {"", "YOUR_API_KEY_HERE"}
              THEN CaptchaExit(captcha, "failed")
         ELSE IF ~captcha.cdpFile THEN CaptchaExit(captcha, "failed")
         ELSE [captcha EXCEPT !.pc = "setup"]
    /\ UNCHANGED <<reaperVars, tabVars, hook, session, chrome, dns, calc, cache>>

\* Connecting, loading the extension list and opening the options page: any
\* step may throw or fail, and an extension that is not installed skips.
CaptchaSetupDone(outcome) ==
    /\ captcha.pc = "setup"
    /\ captcha' =
         CASE outcome = "ok" -> [captcha EXCEPT !.pc = "store"]
           [] outcome = "notInstalled" -> CaptchaExit(captcha, "skipped")
           [] OTHER -> CaptchaExit(captcha, "failed")
    /\ UNCHANGED <<reaperVars, tabVars, hook, session, chrome, dns, calc, cache>>

\* chrome.storage.local.set({config}): its result, or a throw.
CaptchaStored(ok) ==
    /\ captcha.pc = "store"
    /\ captcha' = IF ok THEN [captcha EXCEPT !.pc = "verify"]
                  ELSE CaptchaExit(captcha, "failed")
    /\ UNCHANGED <<reaperVars, tabVars, hook, session, chrome, dns, calc, cache>>

\* The reload and read-back: a throw fails; otherwise the outcome of the
\* check decides, and the marker is written on success only.
CaptchaVerified(thrown, v) ==
    /\ captcha.pc = "verify"
    /\ captcha' =
         IF thrown THEN CaptchaExit(captcha, "failed")
         ELSE LET outcome == VerifyOutcome(v, captcha.apiKey)
                  c == [captcha EXCEPT !.readBack = TRUE, !.verifyConfig = v]
              IN  IF outcome = "succeeded"
                  THEN CaptchaExit([c EXCEPT !.marker = TRUE,
                                             !.wroteMarker = TRUE],
                                   "succeeded")
                  ELSE CaptchaExit(c, "failed")
    /\ UNCHANGED <<reaperVars, tabVars, hook, session, chrome, dns, calc, cache>>

\* ======================================================================
\* Installing an extension through the descriptor cache
\* (installExtensionWithCache, and the copy of it in the singlefile
\* install hook's main)
\* ======================================================================
\* OwnDir is the unpacked_path computed for the extension; a descriptor
\* left by an earlier run may name another directory.
OwnDir == "dirA"
ExtDirs == {"dirA", "dirB"}
\* <name>.extension.json: absent, unparsable, or naming an unpacked_path.
Descriptors == {"absent", "corrupt"} \cup ExtDirs
\* manifest.json under a directory: absent, present without a version,
\* present with one.
ManifestStates == {"none", "noVersion", "ok"}
\* The .crx archive at crx_path: absent, a partial or unusable file, or an
\* archive that unzip can unpack.
CrxStates == {"none", "bad", "good"}
\* How a download ends: the store answers with an error status or no body;
\* the transfer breaks off with part of the file written; it completes with
\* content that is no usable archive; it completes with the archive.
FetchOutcomes == {"httpError", "interrupted", "unusable", "good"}
CacheVariants == {"installExtensionWithCache", "singlefileMain"}
\* The descriptor a call returns: its unpacked_path and version ("" for null).
NoDescriptor == [path |-> "", version |-> ""]

NoCache ==
    [pc |-> "idle", variant |-> "installExtensionWithCache",
     descriptor |-> "absent", manifests |-> [e \in ExtDirs |-> "none"],
     descriptor0 |-> "absent", manifests0 |-> [e \in ExtDirs |-> "none"],
     loads |-> 0, installs |-> 0, wrote |-> FALSE, result |-> "none",
     crx |-> "none", crx0 |-> "none", calls |-> 0, downloads |-> 0,
     unzips |-> 0, ret |-> NoDescriptor, prev |-> NoDescriptor,
     prevManifest |-> "none", prevFailed |-> FALSE]

NewCache(variant, descriptor, manifests, crx) ==
    [NoCache EXCEPT !.pc = "init", !.variant = variant,
                    !.descriptor = descriptor, !.manifests = manifests,
                    !.descriptor0 = descriptor, !.manifests0 = manifests,
                    !.crx = crx, !.crx0 = crx, !.calls = 1]

\* Faulty variant: the descriptor alone makes a hit.
CacheHit_DescriptorOnly(descriptor, manifests) ==
    descriptor \in ExtDirs

\* The descriptor file exists and parses, and manifest.json exists under
\* the unpacked_path it names.
CacheHit(descriptor, manifests) ==
    /\ descriptor \in ExtDirs
    /\ manifests[descriptor] # "none"

\* The cache check at the top of the function.
CacheLookup ==
    /\ cache.pc = "init"
    /\ cache' = IF CacheHit(cache.descriptor, cache.manifests)
                THEN [cache EXCEPT !.pc = "done", !.result = "cached",
                                   !.ret = [path |-> cache.descriptor,
                                            version |-> "1.0"]]
                ELSE [cache EXCEPT !.pc = "install"]
    /\ UNCHANGED <<reaperVars, tabVars, hook, session, chrome, dns, calc, captcha>>

\* Faulty variant: the archive is fetched whenever no manifest is unpacked.
NeedsDownload_NoManifest(manifest, crx) ==
    manifest = "none"

\* if (!fs.existsSync(manifest_path) && !fs.existsSync(extension.crx_path))
NeedsDownload(manifest, crx) ==
    manifest = "none" /\ crx = "none"

\* installExtension: the download when neither manifest nor archive is on
\* disk, then unzip -o of the archive into unpacked_path; the result is
\* whether manifest.json exists afterwards.  Yields the files afterwards and
\* whether a download and an unzip were run.
installExtension(manifest, crx, fetch) ==
    LET needs == NeedsDownload(manifest, crx)
        crx1 == IF ~needs THEN crx
                ELSE CASE fetch = "httpError" -> "none"
                       [] fetch = "good" -> "good"
                       [] OTHER -> "bad"
        early == needs /\ fetch \in {"httpError", "interrupted"}
        m1 == IF ~early /\ crx1 = "good" THEN "ok" ELSE manifest
    IN  [manifest |-> m1, crx |-> crx1, downloaded |-> needs,
         unzipped |-> ~early, ok |-> ~early /\ m1 # "none"]

\* After loadOrInstallExtension returned the extension object: the function
\* returns null when no version could be read; the singlefile hook's main
\* goes on whenever it was handed an object.
ProceedsToWrite(variant, version) ==
    IF variant = "installExtensionWithCache" THEN version # "" ELSE TRUE

\* Faulty variant: installExtension runs whenever the function is called.
NotInstalled_Always(manifest) ==
    TRUE

\* if (!ext.read_version()): no manifest, or a manifest without a version.
NotInstalled(manifest) ==
    manifest # "ok"

\* loadOrInstallExtension: installExtension runs unless a manifest with a
\* version is already unpacked; its return value is ignored and the version
\* is read again from disk.
CacheInstall(fetch) ==
    /\ cache.pc = "install"
    /\ LET runs == NotInstalled(cache.manifests[OwnDir])
           i == installExtension(cache.manifests[OwnDir], cache.crx, fetch)
           m == IF runs THEN i.manifest ELSE cache.manifests[OwnDir]
           version == IF m = "ok" THEN "1.0" ELSE ""
           c == [cache EXCEPT !.manifests[OwnDir] = m,
                              !.crx = IF runs THEN i.crx ELSE @,
                              !.loads = @ + 1,
                              !.installs = IF runs THEN @ + 1 ELSE @,
                              !.downloads = IF runs /\ i.downloaded
                                            THEN @ + 1 ELSE @,
                              !.unzips = IF runs /\ i.unzipped THEN @ + 1 ELSE @,
                              !.ret = [path |-> OwnDir, version |-> version]]
       IN  cache' = IF ProceedsToWrite(cache.variant, version)
                    THEN [c EXCEPT !.pc = "write"]
                    ELSE [c EXCEPT !.pc = "done", !.result = "null",
                                   !.ret = NoDescriptor]
    /\ UNCHANGED <<reaperVars, tabVars, hook, session, chrome, dns, calc, captcha>>

\* Writing <name>.extension.json.  installExtensionWithCache only warns when
\* the write fails; the singlefile hook's main lets the error escape.
CacheWrite(ok) ==
    /\ cache.pc = "write"
    /\ cache' =
         IF ok THEN [cache EXCEPT !.pc = "done", !.descriptor = OwnDir,
                                  !.wrote = TRUE, !.result = "installed"]
         ELSE [cache EXCEPT !.pc = "done",
                 !.result = IF cache.variant = "installExtensionWithCache"
                            THEN "installed" ELSE "thrown"]
    /\ UNCHANGED <<reaperVars, tabVars, hook, session, chrome, dns, calc, captcha>>

\* A later run calls the function again for the same extension, on the
\* files as the earlier call left them.
CacheCallAgain ==
    /\ cache.pc = "done"
    /\ cache.calls < MaxInstallCalls
    /\ cache' = [cache EXCEPT
                   !.pc = "init", !.calls = @ + 1,
                   !.descriptor0 = cache.descriptor,
                   !.manifests0 = cache.manifests, !.crx0 = cache.crx,
                   !.loads = 0, !.installs = 0, !.downloads = 0, !.unzips = 0,
                   !.wrote = FALSE, !.result = "none", !.ret = NoDescriptor,
                   !.prev = cache.ret,
                   !.prevManifest = cache.manifests0[OwnDir],
                   !.prevFailed = cache.downloads > 0
                                    /\ cache.manifests[OwnDir] = "none"]
    /\ UNCHANGED <<reaperVars, tabVars, hook, session, chrome, dns, calc, captcha>>

\* No reaper pass, no marker, no recorded process.
ReaperIdle ==
    /\ now = 0
    /\ dirMtime = [d \in Dirs |-> 0]
    /\ pidFilePid = [f \in PidFiles |-> 0]
    /\ pidFileExists = [f \in PidFiles |-> FALSE]
    /\ procAlive = [p \in Pids |-> FALSE]
    /\ singletonLock = [p \in Personas |-> 0]
    /\ crawlRunning = [d \in Dirs |-> FALSE]
    /\ reaperLog = NoPass

\* No browser, no Snapshot directory, nothing for the executor to launch.
TabIdle ==
    /\ browser = [alive |-> FALSE, created |-> <<>>, pages |-> <<>>]
    /\ crawl = [envSet |-> FALSE, cdpFile |-> FALSE, pidFile |-> FALSE]
    /\ files = [s \in Snapshots |-> NoFiles]
    /\ tab = [s \in Snapshots |-> IdleTab]
    /\ executor = [launches |-> 0, signals |-> 0]
    /\ closeLog = {}

HookIdle == hook = NewHook("chrome_tab", TRUE, TRUE, FALSE)

SessionIdle == session = NewSession(0) /\ chrome = NoChrome
DnsIdle == dns = NoDns
CalcIdle == calc = NoCalc
SetupIdle == captcha = NoCaptcha /\ cache = NoCache
RestIdle == SessionIdle /\ DnsIdle /\ CalcIdle /\ SetupIdle

\* ---- the Zombie Reaper at server start ----
InitReaper ==
    /\ now = 0
    /\ dirMtime = [d \in Dirs |-> 0]
    /\ pidFilePid \in [PidFiles -> PidContents]
    /\ pidFileExists = [f \in PidFiles |-> TRUE]
    /\ procAlive = [p \in Pids |-> TRUE]
    /\ singletonLock = [p \in Personas |-> 0]
    /\ crawlRunning \in [Dirs -> BOOLEAN]
    /\ reaperLog = NoPass
    /\ TabIdle
    /\ HookIdle
    /\ RestIdle

NextReaper ==
    \/ killZombieChrome
    \/ Tick
    \/ \E d \in Dirs : TouchDir(d)
    \/ \E p \in Pids : ProcessExits(p)
    \/ \E p \in Personas : TakeSingletonLock(p)
    \/ \E d \in Dirs : CrawlEnds(d)

SpecReaper == InitReaper /\ [][NextReaper]_vars

\* ---- the Tab Allocators of two Snapshots on one Crawl browser, and a
\* ---- capture hook of HookSnap connecting to its tab
InitTab ==
    /\ ReaperIdle
    /\ browser \in {[alive |-> a, created |-> <<>>, pages |-> <<>>] : a \in BOOLEAN}
    /\ crawl \in [envSet : BOOLEAN, cdpFile : BOOLEAN, pidFile : BOOLEAN]
    /\ files = [s \in Snapshots |-> NoFiles]
    /\ tab = [s \in Snapshots |-> IdleTab]
    /\ executor = [launches |-> MaxInvocations, signals |-> MaxSignals]
    /\ closeLog = {}
    /\ hook = NewHook("consolelog", TRUE, TRUE, FALSE)
    /\ RestIdle

NextTab ==
    \/ \E s \in Snapshots : TabNext(s)
    \/ HookStart
    \/ HookSessionReady
    \/ HookSessionTimeout
    \/ HookConnected
    \/ HookFindPage

SpecTab == InitTab /\ [][NextTab]_vars

\* ---- one hook invocation, of any plugin, in any state of its Snapshot's tab
HookConfigs ==
    {NewHook(p, e, h, d) : p \in Plugins, e \in BOOLEAN, h \in BOOLEAN,
                           d \in BOOLEAN}

\* The states the Tab Allocator of HookSnap can have left behind: no tab
\* yet, a tab ready, the tab closed by cleanup(), the browser gone.
TabEnvs == {"none", "ready", "closed", "dead"}

InitHook ==
    /\ ReaperIdle
    /\ RestIdle
    /\ crawl \in {[envSet |-> e, cdpFile |-> TRUE, pidFile |-> TRUE] : e \in BOOLEAN}
    /\ hook \in HookConfigs \cup {NewHook("chrome_tab", TRUE, TRUE, FALSE)}
    /\ hook.enabled \/ hook.plugin \in CapturePlugins
    /\ hook.https \/ hook.plugin = "ssl"
    /\ ~hook.staticDone \/ hook.plugin = "screenshot"
    /\ IF hook.plugin = "chrome_tab"
       THEN /\ browser \in {[alive |-> a, created |-> <<>>, pages |-> <<>>] :
                              a \in BOOLEAN}
            /\ files = [s \in Snapshots |-> NoFiles]
            /\ tab = [s \in Snapshots |-> IdleTab]
            /\ executor = [launches |-> MaxInvocations, signals |-> MaxSignals]
            /\ closeLog = {}
       ELSE /\ crawl.envSet
            /\ \E env \in TabEnvs :
                 /\ browser = [alive |-> env # "dead",
                               created |-> IF env = "none" THEN <<>>
                                           ELSE <<HookSnap>>,
                               pages |-> IF env = "ready" THEN <<1>> ELSE <<>>]
                 /\ files = [s \in Snapshots |->
                               IF s = HookSnap /\ env # "none" THEN TabFiles(1)
                               ELSE NoFiles]
                 /\ tab = [s \in Snapshots |->
                             IF s # HookSnap \/ env = "none" THEN IdleTab
                             ELSE IF env = "closed"
                             THEN TabCleanupExit(
                                    [IdleTab EXCEPT !.target = 1,
                                                    !.finalStatus = "succeeded"])
                             ELSE [IdleTab EXCEPT !.pc = "resident", !.target = 1,
                                                  !.finalStatus = "succeeded"]]
                 /\ closeLog = IF env = "closed"
                               THEN {[by |-> HookSnap, target |-> 1, read |-> 1]}
                               ELSE {}
            /\ executor = [launches |-> 0, signals |-> MaxSignals]

NextHook ==
    \/ \E s \in {HookSnap} : TabNext(s)
    \/ HookStart
    \/ HookSessionReady
    \/ HookSessionTimeout
    \/ HookConnected
    \/ HookFindPage
    \/ HookCdpReady
    \/ \E t \in BOOLEAN : HookPageLoaded(t)
    \/ \E e \in BOOLEAN : ShotAfterStaticfile(e)
    \/ \E r \in BOOLEAN, t \in BOOLEAN, f \in BOOLEAN :
           RedirectRequestWillBeSent(r, t, f)
    \/ \E f \in BOOLEAN, t \in BOOLEAN : RedirectPageLoad(f, t)
    \/ \E m \in BOOLEAN, ok \in BOOLEAN, ct \in ContentTypes : HookResponse(m, ok, ct)
    \/ \E o \in BufferOutcomes : HookBuffer(o)
    \/ HookSignal
    \/ \E n \in BOOLEAN, sd \in BOOLEAN : HookSslResponse(n, sd)
    \/ \E h \in Hostnames \cup {""}, a \in Addresses \cup {""} : DnsResponseReceived(h, a)
    \/ \E h \in Hostnames \cup {""}, k \in BOOLEAN, e \in BOOLEAN : DnsLoadingFailed(h, k, e)
    \/ Navigate(HookSnap)
    \/ ShotNavigated
    \/ ShotNavTimeout
    \/ ShotFindTarget
    \/ \E ok \in BOOLEAN : ShotTaken(ok)

SpecHook == InitHook /\ [][NextHook]_vars

\* ---- the Session Launcher of one Crawl, relaunched by the orchestrator ----
InitSession ==
    /\ ReaperIdle
    /\ TabIdle
    /\ HookIdle
    /\ DnsIdle
    /\ CalcIdle
    /\ SetupIdle
    /\ session = NewSession(MaxLaunches)
    /\ chrome = NoChrome

NextSession ==
    \/ \E stale \in BOOLEAN, hasRelated \in BOOLEAN : LaunchStart(stale, hasRelated)
    \/ \E r \in DebugReplies, h \in BOOLEAN : LaunchPortRetry(r, h)
    \/ \E r \in DebugReplies, h \in BOOLEAN : LaunchStrayPoll(r, h)
    \/ \E r \in DebugReplies : LaunchPortReady(r)
    \/ LaunchPortTimeout
    \/ LaunchConnected
    \/ LaunchConnectFails
    \/ LauncherSignal
    \/ \E ok \in BOOLEAN : LauncherCloseDone(ok)
    \/ LauncherTermWaitDone
    \/ LauncherKillWaitDone
    \/ LauncherCrash
    \/ \E p \in BrowserPids : ChromeExits(p)

SpecSession == InitSession /\ [][NextSession]_vars

(***************************************************************************)
(* Claims about the Session Launcher (checked under SpecSession)           *)
(***************************************************************************)
LiveBrowsers == {p \in BrowserPids : chrome.alive[p]}

\* C11: at every moment at most one browser process spawned for the Crawl is
\* alive, and the Crawl's chrome.pid holds the pid of each live one.
C11_OneLiveSessionPerCrawl ==
    /\ Cardinality(LiveBrowsers) <= 1
    /\ \A p \in LiveBrowsers : session.pidFile = p

\* ---- the pure functions, each applied once to inputs drawn at the start ----
InitCalc ==
    /\ ReaperIdle
    /\ TabIdle
    /\ HookIdle
    /\ SessionIdle
    /\ DnsIdle
    /\ SetupIdle
    /\ calc \in {[op |-> "getExtensionId", in |-> i, out |-> <<>>, done |-> FALSE] :
                    i \in ExtensionIdInputs}
             \cup {[op |-> "chromiumArgs", in |-> i, out |-> <<>>, done |-> FALSE] :
                    i \in ChromiumArgsInputs}
             \cup {[op |-> "staticFilename", in |-> i, out |-> <<>>, done |-> FALSE] :
                    i \in StaticFilenameInputs}

NextCalc ==
    \/ CallGetExtensionId
    \/ CallChromiumArgs
    \/ CallStaticFilename

SpecCalc == InitCalc /\ [][NextCalc]_vars

\* C20: killChrome's signals are ordered.  Every SIGKILL in the log was sent
\* to a process or group that had been sent SIGTERM before, and a process is
\* recorded as unkillable only when it was found alive after its SIGKILL.
C20_NoKillWithoutTermFirst ==
    /\ \A i \in DOMAIN chrome.sent :
           chrome.sent[i].sig = "SIGKILL" =>
               \E j \in 1..(i - 1) :
                   /\ chrome.sent[j].sig = "SIGTERM"
                   /\ chrome.sent[j].pid = chrome.sent[i].pid
                   /\ chrome.sent[j].related = chrome.sent[i].related
    /\ \A p \in chrome.unkillable :
           \E i \in DOMAIN chrome.sent :
               chrome.sent[i] = [sig |-> "SIGKILL", pid |-> p, related |-> FALSE]

(***************************************************************************)
(* Claims about the pure functions (checked under SpecCalc)                *)
(***************************************************************************)
\* C13: two getExtensionId calls whose paths resolve, symlinks followed, to
\* the same absolute path return the same id whatever else differs between
\* the calls, and every id is 32 characters long, each one of 'a'..'p'.
C13_ExtensionIdIsFunctionOfResolvedPath ==
    (calc.op = "getExtensionId" /\ calc.done) =>
        LET realA == calc.in.fsA[calc.in.pathA]
            realB == calc.in.fsB[calc.in.pathB]
        IN /\ (realA # NoEnt /\ realB # NoEnt /\ realA = realB) =>
                  calc.out.idA = calc.out.idB
           /\ \A id \in {calc.out.idA, calc.out.idB} :
                  /\ Len(id) = 32
                  /\ \A i \in DOMAIN id : id[i] \in Range(Letters)

\* Two calls were made with different paths, from different directories and
\* in different filesystems, that resolve to one absolute path.
C13_Witness ==
    /\ calc.op = "getExtensionId" /\ calc.done
    /\ calc.in.pathA # calc.in.pathB
    /\ calc.in.fsA # calc.in.fsB
    /\ calc.in.cwdA # calc.in.cwdB
    /\ calc.in.fsA[calc.in.pathA] # NoEnt
    /\ calc.in.fsA[calc.in.pathA] = calc.in.fsB[calc.in.pathB]
    /\ calc.out.idA = calc.out.idB

\* C15: with a content-disposition header carrying filename="F" the
\* downloader names the file sanitize(F) (x.pdf for filename="x.pdf");
\* without one it names it by the sanitized basename of the URL path.
C15_FilenameFromContentDisposition ==
    (calc.op = "staticFilename" /\ calc.done) =>
        IF calc.in.hasDisposition
        THEN calc.out = sanitizeFilename(calc.in.F)
        ELSE Basename(calc.in.pathname) # <<>> =>
                 calc.out = sanitizeFilename(Basename(calc.in.pathname))

\* The layers of the command line and the keys each one carries.
KeysOf(args) == {args[i].key : i \in DOMAIN args}
LastOf(args, key) ==
    args[CHOOSE i \in DOMAIN args :
            /\ args[i].key = key
            /\ \A j \in DOMAIN args : args[j].key = key => j <= i]

\* C17: a flag key present in more than one of the layers base, dynamic,
\* extra appears in the command line exactly once, as the occurrence of the
\* highest layer that carries it (extra over dynamic over base).
C17_LastWinsFlagPrecedence ==
    (calc.op = "chromiumArgs" /\ calc.done) =>
        LET base == calc.in.baseArgs
            dyn == dynamicArgs(calc.in.options)
            extra == calc.in.extraArgs
            winner(k) == IF k \in KeysOf(extra) THEN LastOf(extra, k)
                         ELSE IF k \in KeysOf(dyn) THEN LastOf(dyn, k)
                         ELSE LastOf(base, k)
            shared == (KeysOf(base) \cap KeysOf(dyn)) \cup (KeysOf(base) \cap KeysOf(extra))
                      \cup (KeysOf(dyn) \cap KeysOf(extra))
        IN \A k \in shared :
               /\ Cardinality({i \in DOMAIN calc.out : calc.out[i].key = k}) = 1
               /\ \E i \in DOMAIN calc.out : calc.out[i] = winner(k)

(***************************************************************************)
(* Claims about hook invocations (checked under SpecHook)                  *)
(***************************************************************************)
DisabledCapture == hook.plugin \in CapturePlugins /\ ~hook.enabled
HookExited == hook.pc = "exited"

C2_AtMostOneResultPerInvocation ==
    /\ Len(hook.out) <= 1
    /\ \A s \in Snapshots : Len(tab[s].out) <= 1

\* A Tab Allocator that ran cleanup() twice in one invocation (the second
\* signal came while the first handler was awaiting) and has exited.
C2_Witness ==
    /\ tab[HookSnap].pc = "exited"
    /\ tab[HookSnap].handled = 2
    /\ Len(tab[HookSnap].out) = 1

\* C3: an enabled background hook that has received SIGTERM or SIGINT has
\* printed exactly one ArchiveResult and exited with code 0.
C3_SignalledBackgroundHookReportsAndExitsZero ==
    (hook.plugin \in Background /\ hook.enabled /\ hook.signalled) =>
        (HookExited /\ Len(hook.out) = 1 /\ hook.exit = "zero")

StatusMatchesExit(out, exit) ==
    \A i \in DOMAIN out :
        /\ out[i] \in {"succeeded", "skipped"} => exit = "zero"
        /\ out[i] = "failed" => exit # "zero"

\* C4: a process that has exited after printing 'succeeded' or 'skipped'
\* exited with code 0, and one that printed 'failed' with a non-zero code.
C4_StatusMatchesExitCode ==
    /\ HookExited => StatusMatchesExit(hook.out, hook.exit)
    /\ \A s \in Snapshots :
         tab[s].pc = "exited" => StatusMatchesExit(tab[s].out, tab[s].exit)

\* The lines of dns.jsonl that record hostname h at address a.
DnsRecordsFor(h, a) ==
    {i \in DOMAIN dns.file : dns.file[i].hostname = h /\ dns.file[i].ip = a}

C16_NonHttpsYieldsInsecureRecord ==
    (hook.plugin = "ssl" /\ hook.enabled /\ ~hook.https /\ hook.pc # "init") =>
        /\ hook.sslFile = "insecure"
        /\ ~hook.touched

OpenTabsOf(s) ==
    {i \in DOMAIN browser.pages : browser.created[browser.pages[i]] = s}

\* C5: no Snapshot has more than one open tab on the shared browser.
C5_AtMostOneOpenTabPerSnapshot ==
    \A s \in Snapshots : Cardinality(OpenTabsOf(s)) <= 1

\* C6: every tab that was closed was closed by the cleanup() of the Tab
\* Allocator of its own Snapshot, as the target whose id that cleanup() read
\* from the Snapshot's target_id.txt; and no step ends the shared browser.
C6_CleanupClosesOnlyItsRecordedTab ==
    /\ [](/\ \A e \in closeLog :
               /\ e.target = e.read
               /\ browser.created[e.target] = e.by
          /\ \A t \in DOMAIN browser.created :
               t \notin Range(browser.pages) => \E e \in closeLog : e.target = t)
    /\ [][browser'.alive = browser.alive]_vars

\* A cleanup() has closed its tab while a tab of another Snapshot is open.
C6_Witness ==
    \E e \in closeLog :
        \E t \in Range(browser.pages) : browser.created[t] # e.by

\* C7: the page a capture hook has its listeners on is a tab opened for its
\* own Snapshot.
C7_ListenersOnOwnSnapshotTab ==
    hook.page # 0 => browser.created[hook.page] = HookSnap

C18_AbsenceIsNotReadyYet ==
    \A s \in Snapshots :
        (tab[s].pc # "idle" /\ ~tab[s].found /\ crawl.envSet
            /\ (~crawl.cdpFile \/ ~crawl.pidFile)) =>
                tab[s].pc # "exited"

(***************************************************************************)
(* Claims about the Zombie Reaper (checked under SpecReaper)               *)
(***************************************************************************)
\* The pid files that were on disk when the pass just taken began.
ScannedPidFiles == {f \in PidFiles : reaperLog.before[f]}
\* Whether the pass sent a SIGKILL (to the group or to the pid) for f.
KillSentFor(f) == \E sig \in reaperLog.sent : sig[1] = f
AgeMs(f) == now - dirMtime[CrawlDirOf(f)]

\* C8 as stated: a SIGKILL is sent for a recorded pid if and only if the
\* crawl directory's mtime is older than the 5 minute threshold and the pid
\* is alive when it is checked.
C8_KillIffOlderAndAlive ==
    reaperLog.ran =>
        \A f \in ScannedPidFiles :
            KillSentFor(f) <=>
                (AgeMs(f) > StaleThresholdMs /\ f \in reaperLog.aliveAt)

\* C8 amended: a SIGKILL is sent for a recorded pid if and only if the crawl
\* directory's mtime is at least 5 minutes old (mtimeMs <= now - 300000, the
\* threshold instant included) and the pid is alive when it is checked.
C8_KillIffNotActiveAndAlive ==
    reaperLog.ran =>
        \A f \in ScannedPidFiles :
            KillSentFor(f) <=>
                (AgeMs(f) >= StaleThresholdMs /\ f \in reaperLog.aliveAt)

\* A pass that killed for a directory exactly 5 minutes old.
C8_Witness ==
    /\ reaperLog.ran
    /\ \E f \in ScannedPidFiles : KillSentFor(f) /\ AgeMs(f) = StaleThresholdMs
    /\ \E f \in ScannedPidFiles : ~KillSentFor(f) /\ f \in reaperLog.aliveAt

\* C9: a stale directory with a dead recorded pid loses its marker and no
\* signal is sent; a pid file in a fresh directory keeps its marker and no
\* signal is sent for it, whether its pid is alive or not.
C9_DeadCleanedFreshUntouched ==
    reaperLog.ran =>
        \A f \in ScannedPidFiles :
            /\ (/\ dirMtime[CrawlDirOf(f)] <= now - StaleThresholdMs
                /\ pidFilePid[f] > 0
                /\ f \notin reaperLog.aliveAt)
               => (~pidFileExists[f] /\ ~KillSentFor(f))
            /\ (dirMtime[CrawlDirOf(f)] > now - StaleThresholdMs)
               => (pidFileExists[f] /\ ~KillSentFor(f))

\* A pass over a stale directory with a dead pid and a fresh directory with
\* a live one.
C9_Witness ==
    /\ reaperLog.ran
    /\ \E f \in ScannedPidFiles :
          /\ dirMtime[CrawlDirOf(f)] <= now - StaleThresholdMs
          /\ pidFilePid[f] > 0 /\ f \notin reaperLog.aliveAt
          /\ ~pidFileExists[f]
    /\ \E f \in ScannedPidFiles :
          /\ dirMtime[CrawlDirOf(f)] > now - StaleThresholdMs
          /\ f \in reaperLog.aliveAt
          /\ procAlive[pidFilePid[f]]

\* C10 as stated: after the pass the marker of every zombie candidate (stale
\* directory, live pid) is gone, whatever the kill attempts answered.
C10_MarkerGoneWhateverTheKill ==
    reaperLog.ran =>
        \A f \in reaperLog.probedAlive : ~pidFileExists[f]

\* ---- the Crawl-level setup hooks, each run once ----
InitSetup ==
    /\ ReaperIdle
    /\ TabIdle
    /\ HookIdle
    /\ SessionIdle
    /\ DnsIdle
    /\ CalcIdle
    /\ captcha \in {NewCaptcha(k, m, f) :
                      k \in ApiKeys, m \in BOOLEAN, f \in BOOLEAN}
    /\ cache \in {NewCache(v, d, m, x) :
                    v \in CacheVariants, d \in Descriptors,
                    m \in [ExtDirs -> ManifestStates], x \in CrxStates}
    /\ cache.manifests["dirB"] # "noVersion"

NextSetup ==
    \/ CaptchaStart
    \/ \E o \in {"ok", "notInstalled", "failed"} : CaptchaSetupDone(o)
    \/ \E ok \in BOOLEAN : CaptchaStored(ok)
    \/ \E thrown \in BOOLEAN, v \in VerifyConfigs : CaptchaVerified(thrown, v)
    \/ CacheLookup
    \/ \E f \in FetchOutcomes : CacheInstall(f)
    \/ CacheCallAgain
    \/ \E ok \in BOOLEAN : CacheWrite(ok)

SpecSetup == InitSetup /\ [][NextSetup]_vars

\* C21: the 2captcha hook writes its marker and reports success only when
\* the configuration read back holds an API key equal to the one written;
\* a failed read-back or a mismatch ends in 'failed' with a non-zero exit and
\* no marker written.
C21_SuccessOnlyOnVerifiedKey ==
    /\ (captcha.wroteMarker \/ captcha.status = "succeeded") =>
          /\ captcha.readBack
          /\ captcha.verifyConfig.present
          /\ captcha.apiKey \in {captcha.verifyConfig.apiKey,
                                 captcha.verifyConfig.api_key}
          /\ captcha.apiKey \notin {"", "YOUR_API_KEY_HERE"}
    /\ captcha.wroteMarker <=> captcha.status = "succeeded"
    /\ (/\ captcha.readBack
        /\ \/ ~captcha.verifyConfig.present
           \/ captcha.apiKey \notin {captcha.verifyConfig.apiKey,
                                     captcha.verifyConfig.api_key})
          => /\ captcha.status = "failed"
             /\ captcha.exit = "nonzero"
             /\ ~captcha.wroteMarker

\* A run whose read-back held another key than the one written.
C21_Witness ==
    /\ captcha.readBack
    /\ captcha.verifyConfig.present
    /\ captcha.verifyConfig.apiKey = "k2"
    /\ captcha.apiKey = "k1"
    /\ captcha.pc = "done"

\* Whether the lookup of this call found both the descriptor and the
\* manifest under its unpacked_path.
CacheHitAtCall == cache.descriptor0 \in ExtDirs
                    /\ cache.manifests0[cache.descriptor0] # "none"

\* C22: installExtensionWithCache returns the cached descriptor, installing
\* nothing, exactly when the descriptor file parses and manifest.json exists
\* under its unpacked_path; otherwise it calls the installer; and it writes
\* the descriptor only after an install that left a manifest in place.
C22_CachedIffDescriptorAndManifest ==
    (cache.variant = "installExtensionWithCache" /\ cache.pc \notin {"idle", "init"}) =>
        /\ cache.result = "cached" <=> CacheHitAtCall
        /\ cache.result = "cached" =>
              cache.loads = 0 /\ cache.installs = 0 /\ ~cache.wrote
        /\ ~CacheHitAtCall => (cache.pc = "install" \/ cache.loads = 1)
        /\ cache.wrote => (cache.loads = 1 /\ cache.manifests[OwnDir] = "ok")

\* A call that found the descriptor but no manifest under its unpacked_path,
\* reinstalled and wrote the descriptor again.
C22_Witness ==
    /\ cache.variant = "installExtensionWithCache"
    /\ cache.descriptor0 = "dirA"
    /\ cache.manifests0["dirA"] = "none"
    /\ cache.installs = 1
    /\ cache.wrote
    /\ cache.pc = "done"

\* C23: a Tab Allocator that was signalled after it had opened its tab has
\* closed that tab by the time it has exited (the browser still running).
C23_SignalledAllocatorClosedItsTab ==
    \A s \in Snapshots :
        (/\ tab[s].pc = "exited"
         /\ tab[s].handled > 0
         /\ tab[s].target # 0
         /\ browser.alive)
            => tab[s].target \notin Range(browser.pages)

\* C24: a browser found alive after killChrome's SIGKILL is recorded as
\* unkillable, is sent no second SIGKILL, and while it lives the Crawl's
\* chrome.pid still names it, so that a later Reaper pass finds it.
C24_UnkillableStaysDiscoverable ==
    \A p \in chrome.unkillable :
        /\ Cardinality({i \in DOMAIN chrome.sent :
                          chrome.sent[i] = [sig |-> "SIGKILL", pid |-> p,
                                            related |-> FALSE]}) = 1
        /\ chrome.alive[p] => session.pidFile = p

\* C25: once browserInstance.close() has succeeded, killChrome sends the
\* recorded pid neither SIGTERM nor SIGKILL; a kill signal in the log means
\* the graceful close was not tried or did not succeed.
C25_NoKillAfterGracefulClose ==
    session.closeOk => chrome.sent = <<>>

\* C26: launchChromium has returned success, and cdp_url.txt and port.txt
\* were written by this launch, only if the debug endpoint's last answer was
\* a parsed payload carrying the WebSocket URL; a launch that ended any
\* other way returned failure and wrote no cdp_url.txt.
C26_SuccessOnlyAfterWsUrl ==
    /\ (session.launched = "success" \/ session.wroteCdp) =>
          /\ session.reply = "wsUrl"
          /\ session.wroteCdp
          /\ session.portFile = session.chromePid
          /\ session.portFile # 0
          /\ session.launched = "success"
    /\ session.launched = "failure" =>
          /\ session.reply # "wsUrl"
          /\ ~session.wroteCdp
          /\ session.exit = "nonzero"

\* A launch whose first poll failed and whose next one delivered the URL.
C26_Witness ==
    /\ session.launched = "success"
    /\ session.polls > 0
    /\ session.wroteCdp

\* C27: a background hook whose wait for page_loaded.txt timed out has only
\* logged a warning: it took no error path, it stays resident with its
\* listeners installed, and it ends only by a signal, whose handler emits
\* the hook's one result and exits.
C27_PageLoadedWaitIsAdvisory ==
    hook.waitTimedOut =>
        /\ hook.plugin \in Background
        /\ ~hook.error
        /\ hook.listening
        /\ hook.pc \in {"armed", "exited"}
        /\ hook.pc = "exited" =>
              /\ hook.signalled
              /\ Len(hook.out) = 1
              /\ hook.exit = "zero"

\* A hook has been signalled after its wait had timed out.
C27_Witness ==
    /\ hook.waitTimedOut
    /\ hook.pc = "exited"
    /\ hook.signalled
    /\ hook.out = <<"succeeded">>

C29_SucceededNamesExistingArtifact ==
    (\E i \in DOMAIN hook.out : hook.out[i] = "succeeded") =>
        /\ hook.plugin = "ssl" => hook.sslFile # ""
        /\ hook.plugin = "staticfile" => hook.downloadedFilePath # ""

\* C30: once the staticfile hook has saved the navigated document, an
\* enabled screenshot hook of the Snapshot that has started has printed
\* 'skipped' and exited, without going on to take a screenshot.
C30_StaticDownloadSkipsScreenshot ==
    (/\ hook.plugin = "screenshot"
     /\ hook.enabled
     /\ hook.staticSaved
     /\ hook.pc # "init")
        => /\ hook.pc = "exited"
           /\ hook.out = <<"skipped">>

\* What the static-file downloader keeps about the response it acted on.
DownloaderState(h) ==
    <<h.firstResponseHandled, h.detectedContentType, h.isStaticFile,
      h.buffering, h.downloadError, h.downloadedFilePath>>

\* C31: the static-file downloader inspects at most one response and begins
\* at most one download per invocation; a response for another URL, and any
\* response after the inspected one (also while its body is being read),
\* leaves the downloader's state as it was.
C31_AtMostOneResponseActedOn ==
    /\ [](hook.plugin = "staticfile" => hook.inspected <= 1 /\ hook.downloads <= 1)
    /\ [][(/\ hook.plugin = "staticfile"
           /\ hook'.plugin = "staticfile"
           /\ hook'.responses = hook.responses + 1
           /\ (~hook'.lastMain \/ hook.firstResponseHandled))
              => DownloaderState(hook') = DownloaderState(hook)]_vars

\* A second response for the navigated URL arrived while the body of the
\* first was still being read.
C31_Witness ==
    /\ hook.plugin = "staticfile"
    /\ hook.responses = 2
    /\ hook.lastMain
    /\ hook.buffering
    /\ hook.inspected = 1

\* C32: an exception raised while a listener handles one protocol event
\* stays in that invocation: the hook has not ended because of it, and when
\* it has exited it did so through its signal handler with its one result.
C32_ListenerExceptionContained ==
    hook.threw =>
        /\ ~hook.crashed
        /\ hook.pc = "exited" =>
              /\ hook.signalled
              /\ hook.out = <<"succeeded">>
              /\ hook.exit = "zero"

\* C33: once a capture hook's listeners are installed its output file only
\* grows: what the ssl hook has written stays as written, and the redirect
\* and DNS logs never lose a record.
C33_OutputFileIsAppendOnly ==
    [][(hook.plugin = hook'.plugin /\ hook.listening) =>
          /\ hook.sslFile # "" => hook'.sslFile = hook.sslFile
          /\ hook'.lines >= hook.lines
          /\ Len(dns'.file) >= Len(dns.file)
          /\ SubSeq(dns'.file, 1, Len(dns.file)) = dns.file]_vars

\* C34 as stated: a call of installExtensionWithCache that finds the
\* extension's manifest.json present downloads nothing, runs no unzip, and
\* returns the descriptor the call before it returned; installExtension runs
\* only in a call that found the manifest missing.
C34_IdempotentOnceManifestPresent ==
    (cache.variant = "installExtensionWithCache" /\ cache.pc = "done") =>
        /\ cache.manifests0[OwnDir] # "none" =>
              /\ cache.downloads = 0
              /\ cache.unzips = 0
              /\ (cache.calls > 1 /\ cache.prevManifest # "none") =>
                    cache.ret = cache.prev
        /\ cache.installs > 0 => cache.manifests0[OwnDir] = "none"

\* C34 amended: the same for a manifest.json that carries a version;
\* installExtension runs only in a call that found the manifest missing or
\* without a version.
C34_IdempotentOnceVersionReadable ==
    (cache.variant = "installExtensionWithCache" /\ cache.pc = "done") =>
        /\ cache.manifests0[OwnDir] = "ok" =>
              /\ cache.downloads = 0
              /\ cache.unzips = 0
              /\ (cache.calls > 1 /\ cache.prevManifest = "ok") =>
                    cache.ret = cache.prev
        /\ cache.installs > 0 => cache.manifests0[OwnDir] # "ok"

\* A second call on an installed extension, the first of which had missed
\* the cache and written the descriptor, has returned from the cache.
C34_Witness ==
    /\ cache.variant = "installExtensionWithCache"
    /\ cache.pc = "done"
    /\ cache.calls = 2
    /\ cache.prevManifest = "ok"
    /\ cache.manifests0[OwnDir] = "ok"
    /\ cache.result = "cached"
    /\ cache.ret = [path |-> OwnDir, version |-> "1.0"]
    /\ cache.prev = cache.ret

\* C39: a call that follows one whose download left no manifest unpacked,
\* and that runs installExtension, downloads the archive again.
C39_FailedInstallIsRetried ==
    (/\ cache.prevFailed
     /\ cache.manifests0[OwnDir] = "none"
     /\ cache.installs > 0)
        => cache.downloads > 0


\* C35: after a killZombieChrome pass no stale SingletonLock is left under
\* the personas, and the lock of a profile whose browser is still running
\* after the pass is still on disk.
C35_OnlyStaleLocksRemoved ==
    reaperLog.ran =>
        \A p \in Personas :
            LET holder == reaperLog.locksBefore[p] IN
            /\ (holder # 0 /\ ~procAlive[holder]) => singletonLock[p] = 0
            /\ (holder # 0 /\ procAlive[holder]) => singletonLock[p] = holder

\* C36: a killZombieChrome pass never selects as a zombie the browser of a
\* Crawl whose Launcher and Snapshot hooks are still running, however long
\* the Crawl has been running.
C36_RunningCrawlNeverReaped ==
    reaperLog.ran =>
        \A f \in reaperLog.probedAlive : ~crawlRunning[CrawlDirOf(f)]

\* C37: when the Session Launcher has exited after launchChromium returned
\* success:false for a browser it had spawned, that browser is not running.
C37_FailedLaunchLeavesNoBrowser ==
    (session.pc = "exited" /\ session.launched = "failure" /\ session.pidFile # 0)
        => ~chrome.alive[session.pidFile]

\* C38: whenever the Crawl's chrome directory holds cdp_url.txt together with
\* a chrome.pid naming a live process, the URL in cdp_url.txt is the one the
\* process recorded in chrome.pid answered with.
C38_CdpUrlBelongsToRecordedBrowser ==
    (session.cdpFile /\ session.pidFile # 0 /\ chrome.alive[session.pidFile])
        => session.portFile = session.pidFile

\* C40: waitForDebugPort has at most one poll attempt scheduled or in flight
\* at any time, and none once its promise has been resolved or rejected.
C40_OnePollAtATime ==
    /\ session.pending <= 1
    /\ session.settled # "none" => session.pending = 0

====
